---------------------------- MODULE Spec2Model ----------------------------
(***************************************************************************)
(* A model of the entity-resolution core of dataCleanup:                   *)
(*   matching/record_matcher.py  RecordMatcher (blocking, scoring,         *)
(*                               union-find clustering)                    *)
(*   merge/resolver.py           MergeResolver (field resolution, bulk     *)
(*                               merge)                                    *)
(*                                                                         *)
(* Strings are sequences of one-character strings.  A missing value (a     *)
(* pandas NaN) is the one-element sequence NaN.  Python floats are         *)
(* modelled as exact rationals <<n, d>> in lowest terms (d > 0): float     *)
(* rounding is not modelled.  Record indices are 0-based as in the code.   *)
(***************************************************************************)
EXTENDS Integers, Sequences, FiniteSets, TLC

VARIABLES
    df,           \* RecordMatcher.df / MergeResolver.df: 0..n-1 -> record
    config,       \* RecordMatcher.config (a MatchConfig)
    pc,           \* position of the pipeline (find_duplicates, bulk_merge)
    candidates,   \* find_duplicates: candidate_pairs, the set blocking returned
    visited,      \* find_duplicates: the candidate pairs the scoring loop has passed
    pair_scores,  \* find_duplicates: the insertion-ordered dict of accepted pairs
    clusters,     \* RecordMatcher._clusters (None until find_duplicates returns)
    merged,       \* what bulk_merge returned (None before)
    queried,      \* what the last get_cluster_records call returned
    call          \* a single call of a pure helper: its arguments and result

vars == <<df, config, pc, candidates, visited, pair_scores, clusters, merged, queried, call>>

\* Python's None; a variable that may hold None holds <<>> or, for a list,
\* the list wrapped as <<list>>; a record is held as it is
None == <<>>

IsNone(x) == DOMAIN x = {}

Some(x) == <<x>>

(***************************************************************************)
(* Bounds of the model.                                                    *)
(***************************************************************************)
\* longest string handed to _field_similarity
MaxLen == 3
\* largest number of records of a batch
MaxRecords == 5

(***************************************************************************)
(* Characters and strings.                                                 *)
(***************************************************************************)
\* the upper-case letters and, at the same positions, their lower-case letters
Upper ==
    <<"A", "B", "C", "D", "E", "F", "G", "H", "I", "J", "K", "L", "M",
      "N", "O", "P", "Q", "R", "S", "T", "U", "V", "W", "X", "Y", "Z">>

LowerLetters ==
    <<"a", "b", "c", "d", "e", "f", "g", "h", "i", "j", "k", "l", "m",
      "n", "o", "p", "q", "r", "s", "t", "u", "v", "w", "x", "y", "z">>

\* the characters of the model in code-point order
Ord ==
    <<" ", "-", ".", "0", "1", "2", "3", "4", "5", "6", "7", "8", "9", ";", "@">>
        \o Upper \o <<"_">> \o LowerLetters

\* the position of every character in Ord
CodeOf == [c \in {Ord[i] : i \in DOMAIN Ord} |-> CHOOSE i \in DOMAIN Ord : Ord[i] = c]

CharCode(c) == CodeOf[c]

\* the lower-case letter of every upper-case letter
LowerOf ==
    [c \in {Upper[i] : i \in DOMAIN Upper} |->
        LowerLetters[CHOOSE i \in DOMAIN Upper : Upper[i] = c]]

\* str.lower, one character
LowerChar(c) == IF c \in DOMAIN LowerOf THEN LowerOf[c] ELSE c

\* str.lower
Lower(s) == [i \in DOMAIN s |-> LowerChar(s[i])]

\* str.isdigit, one character
IsDigit(c) == c \in {"0", "1", "2", "3", "4", "5", "6", "7", "8", "9"}

IsSpace(c) == c \in {" ", "\t"}

RECURSIVE LStrip(_)
LStrip(s) == IF s # <<>> /\ IsSpace(Head(s)) THEN LStrip(Tail(s)) ELSE s

RECURSIVE RStrip(_)
RStrip(s) ==
    IF s # <<>> /\ IsSpace(s[Len(s)]) THEN RStrip(SubSeq(s, 1, Len(s) - 1)) ELSE s

\* str.strip
Strip(s) == RStrip(LStrip(s))

\* "".join(c for c in value if c.isdigit())
Digits(s) == SelectSeq(s, IsDigit)

\* value[:k]
Prefix(s, k) == SubSeq(s, 1, IF Len(s) < k THEN Len(s) ELSE k)

\* value[-k:]
Suffix(s, k) == SubSeq(s, (IF Len(s) < k THEN 0 ELSE Len(s) - k) + 1, Len(s))

\* a in b, for strings
Contains(a, b) ==
    \E i \in 0..(Len(b) - Len(a)) : SubSeq(b, i + 1, i + Len(a)) = a

\* a missing value: pandas NaN
NaN == <<"NaN">>

\* pd.isna(value)
IsNa(v) == v = NaN

\* str(value)
PyStr(v) == IF IsNa(v) THEN <<"n", "a", "n">> ELSE v

(***************************************************************************)
(* Exact rationals in lowest terms.                                        *)
(***************************************************************************)
RECURSIVE GCD(_, _)
GCD(a, b) == IF b = 0 THEN a ELSE GCD(b, a % b)

Rat(n, d) == LET g == GCD(n, d) IN <<n \div g, d \div g>>

Zero == Rat(0, 1)

One == Rat(1, 1)

RAdd(a, b) == Rat(a[1] * b[2] + b[1] * a[2], a[2] * b[2])

RMul(a, b) == Rat(a[1] * b[1], a[2] * b[2])

RDiv(a, b) == Rat(a[1] * b[2], a[2] * b[1])

RLeq(a, b) == a[1] * b[2] <= b[1] * a[2]

RLess(a, b) == a[1] * b[2] < b[1] * a[2]

(***************************************************************************)
(* rapidfuzz: fuzz.ratio and fuzz.token_sort_ratio, divided by 100.        *)
(***************************************************************************)
Max(a, b) == IF a >= b THEN a ELSE b

\* the longest common subsequence of a prefix of a that ends with c and the
\* prefixes of b up to j, from the row prev of the prefix without c
RECURSIVE LCSRow(_, _, _, _)
LCSRow(prev, c, b, j) ==
    IF j = 0 THEN <<>>
    ELSE LET row == LCSRow(prev, c, b, j - 1)
         IN  Append(row, IF c = b[j]
                         THEN (IF j = 1 THEN 0 ELSE prev[j - 1]) + 1
                         ELSE Max(prev[j], IF j = 1 THEN 0 ELSE row[j - 1]))

\* the rows of the first i characters of a
RECURSIVE LCSRows(_, _, _)
LCSRows(a, b, i) ==
    IF i = 0 THEN [j \in 1..Len(b) |-> 0]
    ELSE LET prev == LCSRows(a, b, i - 1)
         IN  IF Len(prev) = 0 THEN <<>> ELSE LCSRow(prev, a[i], b, Len(b))

\* length of the longest common subsequence
LCS(a, b) ==
    IF a = <<>> \/ b = <<>> THEN 0 ELSE LCSRows(a, b, Len(a))[Len(b)]

\* mutant: the score is left on rapidfuzz's scale of 0 to 100
Ratio_Percent(a, b) ==
    IF Len(a) + Len(b) = 0 THEN Rat(100, 1)
    ELSE Rat(200 * LCS(a, b), Len(a) + Len(b))

\* fuzz.ratio(a, b) / 100.0: the normalized Indel similarity
Ratio(a, b) ==
    IF Len(a) + Len(b) = 0 THEN One ELSE Rat(2 * LCS(a, b), Len(a) + Len(b))

\* str.split(): the maximal runs of non-whitespace characters
RECURSIVE Split(_, _)
Split(s, cur) ==
    IF s = <<>> THEN (IF cur = <<>> THEN <<>> ELSE <<cur>>)
    ELSE IF IsSpace(Head(s))
         THEN (IF cur = <<>> THEN <<>> ELSE <<cur>>) \o Split(Tail(s), <<>>)
         ELSE Split(Tail(s), Append(cur, Head(s)))

\* a < b for strings, by code point
RECURSIVE StrLess(_, _)
StrLess(a, b) ==
    IF b = <<>> THEN FALSE
    ELSE IF a = <<>> THEN TRUE
    ELSE IF Head(a) = Head(b) THEN StrLess(Tail(a), Tail(b))
    ELSE CharCode(Head(a)) < CharCode(Head(b))

\* insert a token into a sorted list of tokens
RECURSIVE InsertToken(_, _)
InsertToken(t, ts) ==
    IF ts = <<>> THEN <<t>>
    ELSE IF StrLess(t, Head(ts)) THEN <<t>> \o ts
    ELSE <<Head(ts)>> \o InsertToken(t, Tail(ts))

\* sorted(tokens)
RECURSIVE SortTokens(_)
SortTokens(ts) ==
    IF ts = <<>> THEN <<>> ELSE InsertToken(Head(ts), SortTokens(Tail(ts)))

\* " ".join(tokens)
RECURSIVE Join(_)
Join(ts) ==
    IF ts = <<>> THEN <<>>
    ELSE IF Len(ts) = 1 THEN Head(ts)
    ELSE Head(ts) \o <<" ">> \o Join(Tail(ts))

\* fuzz.token_sort_ratio(a, b) / 100.0
TokenSortRatio(a, b) ==
    Ratio(Join(SortTokens(Split(a, <<>>))), Join(SortTokens(Split(b, <<>>))))

(***************************************************************************)
(* RecordMatcher._field_similarity                                         *)
(***************************************************************************)
\* a <= b as a prefix or as a suffix
IsPrefixOrSuffix(a, b) ==
    /\ Len(a) <= Len(b)
    /\ \/ SubSeq(b, 1, Len(a)) = a
       \/ SubSeq(b, Len(b) - Len(a) + 1, Len(b)) = a

\* mutant: 0.9 only when one digit string starts or ends the other
PhoneSimilarity_PrefixSuffix(val_i, val_j) ==
    LET digits_i == Digits(val_i)
        digits_j == Digits(val_j)
    IN  IF digits_i = digits_j THEN One
        ELSE IF IsPrefixOrSuffix(digits_i, digits_j) \/ IsPrefixOrSuffix(digits_j, digits_i)
             THEN Rat(9, 10)
        ELSE Ratio(digits_i, digits_j)

\* the phone branch, on the lowercased values
PhoneSimilarity(val_i, val_j) ==
    LET digits_i == Digits(val_i)
        digits_j == Digits(val_j)
    IN  IF digits_i = digits_j THEN One
        ELSE IF Contains(digits_i, digits_j) \/ Contains(digits_j, digits_i)
             THEN Rat(9, 10)
        ELSE Ratio(digits_i, digits_j)

\* mutant: emails compared fuzzily like any other text
EmailSimilarity_Fuzzy(val_i, val_j) == TokenSortRatio(val_i, val_j)

\* the email branch, on the lowercased values
EmailSimilarity(val_i, val_j) == IF val_i = val_j THEN One ELSE Zero

_field_similarity(val_i, val_j, field) ==
    IF val_i = <<>> \/ val_j = <<>> THEN Zero
    ELSE LET li == Lower(val_i)
             lj == Lower(val_j)
         IN  IF li = lj THEN One
             ELSE IF field = "email" THEN EmailSimilarity(li, lj)
             ELSE IF field = "phone" THEN PhoneSimilarity(li, lj)
             ELSE TokenSortRatio(li, lj)


(***************************************************************************)
(* MatchConfig and RecordMatcher._score_pair                               *)
(***************************************************************************)
\* MatchConfig.match_fields default: the dict's items in order, <<field, weight>>
DefaultMatchFields ==
    << <<"email", Rat(1, 1)>>, <<"phone", Rat(4, 5)>>, <<"first_name", Rat(1, 2)>>,
       <<"last_name", Rat(3, 5)>>, <<"company", Rat(2, 5)>> >>

\* MatchConfig.duplicate_threshold default
DefaultThreshold == Rat(4, 5)

\* MatchConfig.blocking_fields default
DefaultBlockingFields == <<"email", "phone", "last_name">>

\* df.columns
Columns(d) == IF DOMAIN d = {} THEN {} ELSE DOMAIN d[0]

\* len(df)
NumRows(d) == Cardinality(DOMAIN d)

\* str(self.df.iloc[idx][field]).strip()
CellStr(d, idx, field) == Strip(PyStr(d[idx][field]))

\* mutant: a field is skipped as soon as one of the two values is empty
SkipField_EitherEmpty(val_i, val_j) == val_i = <<>> \/ val_j = <<>>

\* "Skip if both are empty": not val_i and not val_j
SkipField(val_i, val_j) == val_i = <<>> /\ val_j = <<>>

\* the loop of _score_pair after the first k items of match_fields:
\* field_scores, weighted_score and total_weight
RECURSIVE ScoreLoop(_, _, _, _, _)
ScoreLoop(d, match_fields, idx_i, idx_j, k) ==
    IF k = 0
    THEN [field_scores |-> <<>>, weighted_score |-> Zero, total_weight |-> Zero]
    ELSE LET acc    == ScoreLoop(d, match_fields, idx_i, idx_j, k - 1)
             field  == match_fields[k][1]
             weight == match_fields[k][2]
         IN  IF field \notin Columns(d) THEN acc
             ELSE LET val_i == CellStr(d, idx_i, field)
                      val_j == CellStr(d, idx_j, field)
                  IN  IF SkipField(val_i, val_j) THEN acc
                      ELSE LET similarity == _field_similarity(val_i, val_j, field)
                           IN  [field_scores |->
                                    [f \in (DOMAIN acc.field_scores) \cup {field} |->
                                        IF f = field THEN similarity
                                        ELSE acc.field_scores[f]],
                                weighted_score |->
                                    RAdd(acc.weighted_score, RMul(similarity, weight)),
                                total_weight |-> RAdd(acc.total_weight, weight)]

\* mutant: the weighted sum is returned without dividing by the total weight
OverallScore_Unnormalized(weighted_score, total_weight) ==
    IF RLess(Zero, total_weight) THEN weighted_score ELSE Zero

\* overall_score = weighted_score / total_weight if total_weight > 0 else 0.0
OverallScore(weighted_score, total_weight) ==
    IF RLess(Zero, total_weight) THEN RDiv(weighted_score, total_weight) ELSE Zero

_score_pair(d, match_fields, idx_i, idx_j) ==
    LET acc == ScoreLoop(d, match_fields, idx_i, idx_j, Len(match_fields))
    IN  [score |-> OverallScore(acc.weighted_score, acc.total_weight),
         field_scores |-> acc.field_scores]

(***************************************************************************)
(* Blocking: _normalize_for_blocking, _create_blocks, _get_candidate_pairs *)
(***************************************************************************)
\* value.split("@")[0]
RECURSIVE BeforeAt(_)
BeforeAt(s) ==
    IF s = <<>> \/ Head(s) = "@" THEN <<>> ELSE <<Head(s)>> \o BeforeAt(Tail(s))

_normalize_for_blocking(value, field) ==
    LET v == Strip(Lower(value))
        general == IF Len(v) >= 5 THEN Prefix(v, 5) ELSE v
    IN  IF field = "email"
        THEN (IF \E k \in DOMAIN v : v[k] = "@" THEN Prefix(BeforeAt(v), 4) ELSE general)
        ELSE IF field = "phone"
        THEN LET digits == Digits(v)
             IN  IF Len(digits) >= 4 THEN Suffix(digits, 4) ELSE digits
        ELSE IF field \in {"last_name", "first_name"}
        THEN (IF Len(v) >= 3 THEN Prefix(v, 3) ELSE v)
        ELSE general

\* the records _create_blocks does not skip: value neither NaN nor blank
HasBlockValue(d, idx, field) ==
    ~IsNa(d[idx][field]) /\ Strip(PyStr(d[idx][field])) # <<>>

\* the indices in S in ascending order
RECURSIVE Ascending(_)
Ascending(S) ==
    IF S = {} THEN <<>>
    ELSE LET lo == CHOOSE x \in S : \A y \in S : x <= y
         IN  <<lo>> \o Ascending(S \ {lo})

\* mutant: a blank or missing value is blocked under the empty key
_create_blocks_KeepEmpty(d, field) ==
    LET KeyOf(idx) == _normalize_for_blocking(PyStr(d[idx][field]), field)
        keys == {KeyOf(idx) : idx \in DOMAIN d}
    IN  [key \in keys |-> Ascending({idx \in DOMAIN d : KeyOf(idx) = key})]

\* block key -> the indices with that key, in row order
_create_blocks(d, field) ==
    LET KeyOf(idx) == _normalize_for_blocking(PyStr(d[idx][field]), field)
        keyed == {idx \in DOMAIN d : HasBlockValue(d, idx, field) /\ KeyOf(idx) # <<>>}
        keys == {KeyOf(idx) : idx \in keyed}
    IN  [key \in keys |-> Ascending({idx \in keyed : KeyOf(idx) = key})]

Min(a, b) == IF a <= b THEN a ELSE b

\* mutant: the pairs of a block are taken in both orders
BlockPairs_BothOrders(indices) ==
    IF Len(indices) < 2 THEN {}
    ELSE {<<indices[i], indices[j]>> :
             <<i, j>> \in {q \in (DOMAIN indices) \X (DOMAIN indices) : q[1] # q[2]}}

\* all pairs within one block
BlockPairs(indices) ==
    IF Len(indices) < 2 THEN {}
    ELSE {<<Min(indices[i], indices[j]), Max(indices[i], indices[j])>> :
             <<i, j>> \in {q \in (DOMAIN indices) \X (DOMAIN indices) : q[1] < q[2]}}

_get_candidate_pairs(d, blocking_fields) ==
    UNION { LET blocks == _create_blocks(d, blocking_fields[k])
            IN  UNION {BlockPairs(blocks[key]) : key \in DOMAIN blocks}
          : k \in {x \in DOMAIN blocking_fields : blocking_fields[x] \in Columns(d)} }

(***************************************************************************)
(* RecordMatcher._cluster_pairs.  pair_scores is the insertion-ordered     *)
(* dict as a sequence of [pair, score, field_scores]; parent is the        *)
(* insertion-ordered dict of the union-find as [keys, map].                *)
(***************************************************************************)
\* find(x), with path compression: the root and the parent dict afterwards
RECURSIVE Find(_, _)
Find(parent, x) ==
    LET p1 == IF x \in DOMAIN parent.map THEN parent
              ELSE [keys |-> Append(parent.keys, x), map |-> (x :> x) @@ parent.map]
    IN  IF p1.map[x] # x
        THEN LET r == Find(p1, p1.map[x])
             IN  [root |-> r.root, parent |-> [r.parent EXCEPT !.map[x] = r.root]]
        ELSE [root |-> x, parent |-> p1]

\* mutant: union links the two records themselves, not their roots
Union_NoFind(parent, x, y) ==
    LET fx == Find(parent, x)
        fy == Find(fx.parent, y)
    IN  IF x # y THEN [fy.parent EXCEPT !.map[x] = y] ELSE fy.parent

\* union(x, y): the parent dict afterwards
Union(parent, x, y) ==
    LET fx == Find(parent, x)
        fy == Find(fx.parent, y)
    IN  IF fx.root # fy.root THEN [fy.parent EXCEPT !.map[fx.root] = fy.root]
        ELSE fy.parent

\* "for i, j in pair_scores.keys(): union(i, j)", the first k keys
RECURSIVE UnionLoop(_, _)
UnionLoop(scores, k) ==
    IF k = 0 THEN [keys |-> <<>>, map |-> <<>>]
    ELSE Union(UnionLoop(scores, k - 1), scores[k].pair[1], scores[k].pair[2])

\* mutant: the records are grouped by their parent, not by their root
RECURSIVE GroupLoop_ByParent(_, _)
GroupLoop_ByParent(parent, k) ==
    IF k = 0 THEN [parent |-> parent, roots |-> <<>>, lists |-> <<>>]
    ELSE LET acc == GroupLoop_ByParent(parent, k - 1)
             idx == parent.keys[k]
             up  == parent.map[idx]
         IN  IF up \in DOMAIN acc.lists
             THEN [parent |-> acc.parent, roots |-> acc.roots,
                   lists |-> [acc.lists EXCEPT ![up] = Append(@, idx)]]
             ELSE [parent |-> acc.parent, roots |-> Append(acc.roots, up),
                   lists |-> (up :> <<idx>>) @@ acc.lists]

\* "Group by cluster root", the first k keys of parent: clusters_dict as
\* [roots (insertion order), lists], and the parent dict find leaves behind
RECURSIVE GroupLoop(_, _)
GroupLoop(parent, k) ==
    IF k = 0 THEN [parent |-> parent, roots |-> <<>>, lists |-> <<>>]
    ELSE LET acc == GroupLoop(parent, k - 1)
             idx == parent.keys[k]
             f   == Find(acc.parent, idx)
         IN  IF f.root \in DOMAIN acc.lists
             THEN [parent |-> f.parent, roots |-> acc.roots,
                   lists |-> [acc.lists EXCEPT ![f.root] = Append(@, idx)]]
             ELSE [parent |-> f.parent, roots |-> Append(acc.roots, f.root),
                   lists |-> (f.root :> <<idx>>) @@ acc.lists]

\* the keys of pair_scores
ScoredPairs(scores) == {scores[k].pair : k \in DOMAIN scores}

\* pair_scores[pair]
ScoreEntry(scores, pair) == scores[CHOOSE k \in DOMAIN scores : scores[k].pair = pair]

\* the pairs (min, max) of a group's indices that are keys of pair_scores
MemberPairs(scores, indices) ==
    {p \in {<<Min(indices[i], indices[j]), Max(indices[i], indices[j])>> :
               <<i, j>> \in {q \in (DOMAIN indices) \X (DOMAIN indices) : q[1] < q[2]}} :
        p \in ScoredPairs(scores)}

\* total_score over the pairs in S
RECURSIVE TotalScore(_, _)
TotalScore(scores, S) ==
    IF S = {} THEN Zero
    ELSE LET p == CHOOSE x \in S : TRUE
         IN  RAdd(ScoreEntry(scores, p).score, TotalScore(scores, S \ {p}))

\* sum(aggregated_field_scores[field]) over the pairs in S
RECURSIVE TotalFieldScore(_, _, _)
TotalFieldScore(scores, field, S) ==
    IF S = {} THEN Zero
    ELSE LET p == CHOOSE x \in S : TRUE
         IN  RAdd(ScoreEntry(scores, p).field_scores[field],
                  TotalFieldScore(scores, field, S \ {p}))

\* mutant: the average is taken over all C(n, 2) pairs of the group, a pair
\* that was not scored counting as 0
AvgConfidence_AllPairs(scores, indices) ==
    LET pairs == MemberPairs(scores, indices)
        n == Len(indices)
    IN  IF n >= 2 THEN RDiv(TotalScore(scores, pairs), Rat((n * (n - 1)) \div 2, 1))
        ELSE Zero

\* avg_confidence = total_score / total_pairs if total_pairs > 0 else 0.0
AvgConfidence(scores, indices) ==
    LET pairs == MemberPairs(scores, indices)
    IN  IF Cardinality(pairs) > 0
        THEN RDiv(TotalScore(scores, pairs), Rat(Cardinality(pairs), 1))
        ELSE Zero

\* avg_field_scores
AvgFieldScores(scores, indices) ==
    LET pairs == MemberPairs(scores, indices)
        fields == UNION {DOMAIN ScoreEntry(scores, p).field_scores : p \in pairs}
    IN  [field \in fields |->
            LET having == {p \in pairs : field \in DOMAIN ScoreEntry(scores, p).field_scores}
            IN  RDiv(TotalFieldScore(scores, field, having), Rat(Cardinality(having), 1))]

\* mutant: the indices are kept in the order the union-find met them
RecordIndices_Unsorted(indices) == indices

\* record_indices=sorted(indices)
RecordIndices(indices) == Ascending({indices[i] : i \in DOMAIN indices})

\* "Build cluster objects", the first k items of clusters_dict
RECURSIVE BuildLoop(_, _, _)
BuildLoop(scores, grouped, k) ==
    IF k = 0 THEN <<>>
    ELSE LET acc == BuildLoop(scores, grouped, k - 1)
             indices == grouped.lists[grouped.roots[k]]
         IN  IF Len(indices) < 2 THEN acc
             ELSE Append(acc, [cluster_id |-> k - 1,
                               record_indices |-> RecordIndices(indices),
                               confidence |-> AvgConfidence(scores, indices),
                               field_similarities |-> AvgFieldScores(scores, indices)])

\* insert c behind every cluster whose confidence is not lower (stable)
RECURSIVE InsertByConfidence(_, _)
InsertByConfidence(c, cs) ==
    IF cs = <<>> THEN <<c>>
    ELSE IF RLess(Head(cs).confidence, c.confidence) THEN <<c>> \o cs
    ELSE <<Head(cs)>> \o InsertByConfidence(c, Tail(cs))

\* mutant: the clusters are renumbered by their position after the sort
SortByConfidence_Renumber(cs) ==
    LET RECURSIVE Sorted(_)
        Sorted(k) == IF k = 0 THEN <<>> ELSE InsertByConfidence(cs[k], Sorted(k - 1))
        sorted == Sorted(Len(cs))
    IN  [k \in DOMAIN sorted |-> [sorted[k] EXCEPT !.cluster_id = k - 1]]

\* clusters.sort(key=lambda c: c.confidence, reverse=True)
SortByConfidence(cs) ==
    LET RECURSIVE Sorted(_)
        Sorted(k) == IF k = 0 THEN <<>> ELSE InsertByConfidence(cs[k], Sorted(k - 1))
    IN  Sorted(Len(cs))

_cluster_pairs(scores) ==
    IF scores = <<>> THEN <<>>
    ELSE LET parent  == UnionLoop(scores, Len(scores))
             grouped == GroupLoop(parent, Len(parent.keys))
         IN  SortByConfidence(BuildLoop(scores, grouped, Len(grouped.roots)))

(***************************************************************************)
(* MergeResolver: _apply_strategy, _resolve_field, merge_records,          *)
(* bulk_merge.  A MergeStrategy is its tag.  values and non_empty are      *)
(* sequences of <<idx, val>>.                                              *)
(***************************************************************************)
\* df.columns, in order
ColumnOrder == <<"email", "phone", "last_name">>

ColumnSeq(d) == SelectSeq(ColumnOrder, LAMBDA c : c \in Columns(d))

\* the stripped string of a cell, "" for a missing one (resolver.py line 142)
MergeValue(d, idx, field) ==
    IF IsNa(d[idx][field]) THEN <<>> ELSE Strip(PyStr(d[idx][field]))

\* the number of filled fields of record idx
Filled(d, idx) == Cardinality({col \in Columns(d) : MergeValue(d, idx, col) # <<>>})

\* max(values, key=...): the position of the first maximum of the keys
FirstMax(keys) ==
    CHOOSE k \in DOMAIN keys :
        /\ \A m \in DOMAIN keys : keys[m] <= keys[k]
        /\ \A m \in 1..(k - 1) : keys[m] < keys[k]

\* list(dict.fromkeys(val for _, val in values)), the first k values
RECURSIVE UniqueValues(_, _)
UniqueValues(values, k) ==
    IF k = 0 THEN <<>>
    ELSE LET acc == UniqueValues(values, k - 1)
         IN  IF \E m \in DOMAIN acc : acc[m] = values[k][2] THEN acc
             ELSE Append(acc, values[k][2])

\* "; ".join(unique_values)
RECURSIVE JoinSemicolon(_)
JoinSemicolon(vs) ==
    IF vs = <<>> THEN <<>>
    ELSE IF Len(vs) = 1 THEN Head(vs)
    ELSE Head(vs) \o <<";", " ">> \o JoinSemicolon(Tail(vs))

\* mutant: of the values of maximal length the last one is kept
KeepLongest_LastMax(values) ==
    values[CHOOSE k \in DOMAIN values :
              /\ \A m \in DOMAIN values : Len(values[m][2]) <= Len(values[k][2])
              /\ \A m \in (k + 1)..Len(values) : Len(values[m][2]) < Len(values[k][2])]

\* KEEP_LONGEST: max(values, key=lambda x: len(x[1]))
KeepLongest(values) ==
    values[FirstMax([k \in DOMAIN values |-> Len(values[k][2])])]

\* mutant: of the most complete records the one of the lowest index is kept
KeepMostComplete_LowestIndex(d, values) ==
    LET best == CHOOSE k \in DOMAIN values :
                   /\ \A m \in DOMAIN values : Filled(d, values[m][1]) <= Filled(d, values[k][1])
                   /\ \A m \in DOMAIN values :
                         Filled(d, values[m][1]) = Filled(d, values[k][1])
                            => values[k][1] <= values[m][1]
    IN  values[best]

\* KEEP_MOST_COMPLETE: the value of the record with the most filled fields
KeepMostComplete(d, values) ==
    LET best == FirstMax([k \in DOMAIN values |-> Filled(d, values[k][1])])
        best_idx == values[best][1]
        first == CHOOSE k \in DOMAIN values :
                    /\ values[k][1] = best_idx
                    /\ \A m \in 1..(k - 1) : values[m][1] # best_idx
    IN  <<best_idx, values[first][2]>>

\* mutant: every value is joined, a repeated one as often as it occurs
Concatenate_NoDedup(values) ==
    <<values[1][1], JoinSemicolon([k \in DOMAIN values |-> values[k][2]])>>

\* CONCATENATE: the unique values joined with "; ", sourced from the first
Concatenate(values) ==
    <<values[1][1], JoinSemicolon(UniqueValues(values, Len(values)))>>

\* mutant: manual and unknown strategies fall back to the last value
Fallback_Last(values) == values[Len(values)]

\* "else:  # MANUAL or unknown - default to first"
Fallback(values) == values[1]

_apply_strategy(d, values, strategy) ==
    IF strategy = "keep_first" THEN values[1]
    ELSE IF strategy = "keep_last" THEN values[Len(values)]
    ELSE IF strategy = "keep_longest" THEN KeepLongest(values)
    ELSE IF strategy = "keep_most_complete" THEN KeepMostComplete(d, values)
    ELSE IF strategy = "concatenate" THEN Concatenate(values)
    ELSE Fallback(values)

\* mutant: a single non-empty value is credited to the first supplied record
_resolve_field_FirstSource(d, field, indices, strategy) ==
    LET values == [k \in DOMAIN indices |-> <<indices[k], MergeValue(d, indices[k], field)>>]
        non_empty == SelectSeq(values, LAMBDA v : v[2] # <<>>)
    IN  IF non_empty = <<>>
        THEN [field |-> field, chosen_value |-> <<>>, source_index |-> indices[1],
              strategy |-> strategy, alternatives |-> <<>>]
        ELSE IF Len(non_empty) = 1
        THEN [field |-> field, chosen_value |-> non_empty[1][2],
              source_index |-> indices[1], strategy |-> strategy,
              alternatives |-> <<>>]
        ELSE LET chosen == _apply_strategy(d, non_empty, strategy)
             IN  [field |-> field, chosen_value |-> chosen[2], source_index |-> chosen[1],
                  strategy |-> strategy,
                  alternatives |->
                      SelectSeq(non_empty, LAMBDA v : v[1] # chosen[1] /\ v[2] # chosen[2])]

_resolve_field(d, field, indices, strategy) ==
    LET values == [k \in DOMAIN indices |-> <<indices[k], MergeValue(d, indices[k], field)>>]
        non_empty == SelectSeq(values, LAMBDA v : v[2] # <<>>)
    IN  IF non_empty = <<>>
        THEN [field |-> field, chosen_value |-> <<>>, source_index |-> indices[1],
              strategy |-> strategy, alternatives |-> <<>>]
        ELSE IF Len(non_empty) = 1
        THEN [field |-> field, chosen_value |-> non_empty[1][2],
              source_index |-> non_empty[1][1], strategy |-> strategy,
              alternatives |-> <<>>]
        ELSE LET chosen == _apply_strategy(d, non_empty, strategy)
             IN  [field |-> field, chosen_value |-> chosen[2], source_index |-> chosen[1],
                  strategy |-> strategy,
                  alternatives |->
                      SelectSeq(non_empty, LAMBDA v : v[1] # chosen[1] /\ v[2] # chosen[2])]

\* mutant: a field with alternatives counts 0, so that the confidence is the
\* fraction of the fields without alternatives
MergeConfidence_Fraction(decisions) ==
    LET RECURSIVE Total(_)
        Total(k) ==
            IF k = 0 THEN Zero
            ELSE RAdd(Total(k - 1),
                      IF decisions[k].alternatives # <<>> THEN Zero ELSE One)
    IN  IF decisions = <<>> THEN One
        ELSE RDiv(Total(Len(decisions)), Rat(Len(decisions), 1))

\* sum(agreement_scores) / len(agreement_scores) if agreement_scores else 1.0
MergeConfidence(decisions) ==
    LET RECURSIVE Total(_)
        Total(k) ==
            IF k = 0 THEN Zero
            ELSE RAdd(Total(k - 1),
                      IF decisions[k].alternatives # <<>> THEN Rat(1, 2) ELSE One)
    IN  IF decisions = <<>> THEN One
        ELSE RDiv(Total(Len(decisions)), Rat(Len(decisions), 1))

\* merge_records(indices) of a resolver with the given strategies; field_strategies
\* is a function from the overridden fields to their strategies
merge_records(d, indices, default_strategy, field_strategies) ==
    IF indices = <<>>
    THEN [merged_record |-> <<>>, source_indices |-> <<>>, decisions |-> <<>>,
          confidence |-> Zero]
    ELSE IF Len(indices) = 1
    THEN [merged_record |-> d[indices[1]], source_indices |-> indices,
          decisions |-> <<>>, confidence |-> One]
    ELSE LET columns == ColumnSeq(d)
             decisions ==
                 [k \in DOMAIN columns |->
                     _resolve_field(d, columns[k], indices,
                                    IF columns[k] \in DOMAIN field_strategies
                                    THEN field_strategies[columns[k]]
                                    ELSE default_strategy)]
         IN  [merged_record |->
                  [c \in Columns(d) |->
                      decisions[CHOOSE k \in DOMAIN columns : columns[k] = c].chosen_value],
              source_indices |-> indices,
              decisions |-> decisions,
              confidence |-> MergeConfidence(decisions)]

\* mutant: the merged record is written back over the first merged row
ResolverDf_WriteBack(d, indices, result) ==
    IF Len(indices) < 2 THEN d ELSE [d EXCEPT ![indices[1]] = result.merged_record]

\* self.df after merge_records(indices) returned result: merge_records reads
\* self.df (records = self.df.iloc[indices]) and assigns nothing to it
ResolverDf(d, indices, result) == d

\* merged_indices after the loop over the clusters
MergedIndices(cluster_lists) ==
    UNION {{cluster_lists[k][m] : m \in DOMAIN cluster_lists[k]} : k \in DOMAIN cluster_lists}

\* mutant: the merged indices are not taken out of the pass-through rows
SingletonIndices_All(d, cluster_lists) == DOMAIN d

\* singleton_indices = all_indices - merged_indices
SingletonIndices(d, cluster_lists) == DOMAIN d \ MergedIndices(cluster_lists)

\* mutant: the rows outside the clusters are not passed through
bulk_merge_MergedOnly(d, cluster_lists, default_strategy, field_strategies) ==
    LET results == [k \in DOMAIN cluster_lists |->
                       merge_records(d, cluster_lists[k], default_strategy, field_strategies)]
    IN  [results |-> results,
         rows |-> [k \in DOMAIN results |->
                      [sources |-> cluster_lists[k], record |-> results[k].merged_record]]]

\* bulk_merge(clusters): the MergeResults and the rows of merged_df; each row
\* carries, beside its record, the indices it was made from (sources)
bulk_merge(d, cluster_lists, default_strategy, field_strategies) ==
    LET results == [k \in DOMAIN cluster_lists |->
                       merge_records(d, cluster_lists[k], default_strategy, field_strategies)]
        singles == Ascending(SingletonIndices(d, cluster_lists))
    IN  [results |-> results,
         rows |-> [k \in DOMAIN results |->
                      [sources |-> cluster_lists[k], record |-> results[k].merged_record]]
                  \o [k \in DOMAIN singles |->
                      [sources |-> <<singles[k]>>, record |-> d[singles[k]]]]]

(***************************************************************************)
(* The pipeline of cli.clean on a batch: RecordMatcher(df, config),        *)
(* find_duplicates, get_cluster_records, MergeResolver.bulk_merge.         *)
(***************************************************************************)
Rec(email, phone, last_name) ==
    [email |-> email, phone |-> phone, last_name |-> last_name]

\* the rows the batches are made of: equal and contained phone digits, last
\* names equal up to case and one character apart, blank and missing values,
\* an email whose blocking key is empty, emails equal up to case, two rows
\* that share the keys of two fields
Pool ==
    << Rec(<<" ">>, <<"1", "2">>, <<"a", "b">>),
       Rec(<<>>, <<"1", "2">>, <<"A", "b", "c">>),
       Rec(<<>>, <<"1", "2", "3">>, <<"a", "b", "c">>),
       Rec(<<"@", "x">>, <<"1", "2", "-", "3">>, <<"z", "z">>),
       Rec(<<"a", "@", "x">>, NaN, <<"q">>),
       Rec(<<"A", "@", "x">>, NaN, <<"Q", " ">>) >>

\* the batches: up to MaxRecords different rows of the pool, in any order
Batches ==
    {sel \in UNION {[1..n -> DOMAIN Pool] : n \in 0..MaxRecords} :
        \A a, b \in DOMAIN sel : a # b => sel[a] # sel[b]}

\* the configurations: the default; a higher duplicate_threshold;
\* blocking on one field; blocking on a field that is no column
Configs ==
    { [match_fields |-> DefaultMatchFields, duplicate_threshold |-> t[1],
       blocking_fields |-> t[2]] :
        t \in { <<DefaultThreshold, DefaultBlockingFields>>,
                <<Rat(19, 20), DefaultBlockingFields>>,
                <<DefaultThreshold, <<"phone">> >>,
                <<DefaultThreshold, <<"company">> >> } }

Init ==
    /\ \E sel \in Batches : df = [idx \in 0..(Len(sel) - 1) |-> Pool[sel[idx + 1]]]
    /\ config \in Configs
    /\ pc = "start"
    /\ candidates = {}
    /\ visited = {}
    /\ pair_scores = <<>>
    /\ clusters = None
    /\ merged = None
    /\ queried = None
    /\ call = None

\* find_duplicates, up to the scoring loop: candidate_pairs = _get_candidate_pairs()
GetCandidatePairs ==
    /\ pc = "start"
    /\ IsNone(clusters)
    /\ candidates' = _get_candidate_pairs(df, config.blocking_fields)
    /\ pc' = "scoring"
    /\ UNCHANGED <<df, config, visited, pair_scores, clusters, merged, queried, call>>

\* one pass of "for i, j in candidate_pairs": the set is visited in any order
ScoreCandidate ==
    /\ pc = "scoring"
    /\ \E pair \in candidates \ visited :
          LET scored == _score_pair(df, config.match_fields, pair[1], pair[2])
          IN  /\ pair_scores' =
                    IF RLeq(config.duplicate_threshold, scored.score)
                    THEN Append(pair_scores, [pair |-> pair, score |-> scored.score,
                                              field_scores |-> scored.field_scores])
                    ELSE pair_scores
              /\ visited' = visited \cup {pair}
    /\ UNCHANGED <<df, config, pc, candidates, clusters, merged, queried, call>>

\* the end of find_duplicates: self._clusters = self._cluster_pairs(pair_scores)
ClusterPairs ==
    /\ pc = "scoring"
    /\ visited = candidates
    /\ clusters' = Some(_cluster_pairs(pair_scores))
    /\ pc' = "found"
    /\ UNCHANGED <<df, config, candidates, visited, pair_scores, merged, queried, call>>

\* the position of the first cluster carrying cluster_id, 0 when there is none
FirstWithId(cs, cluster_id) ==
    IF \E k \in DOMAIN cs : cs[k].cluster_id = cluster_id
    THEN CHOOSE k \in DOMAIN cs :
            /\ cs[k].cluster_id = cluster_id
            /\ \A m \in 1..(k - 1) : cs[m].cluster_id # cluster_id
    ELSE 0

\* self.df.iloc[indices]: the rows with their labels
ILoc(d, indices) == [k \in DOMAIN indices |-> [index |-> indices[k], row |-> d[indices[k]]]]

\* get_cluster_records(cluster_id) on the cached clusters
get_cluster_records(d, cs, cluster_id) ==
    LET k == FirstWithId(cs, cluster_id)
    IN  IF k = 0 THEN <<>> ELSE ILoc(d, cs[k].record_indices)

\* a caller inspects one cluster: get_cluster_records(cluster_id)
GetClusterRecords ==
    /\ pc = "found"
    /\ \E cluster_id \in 0..(MaxRecords \div 2) :
          queried' = [cluster_id |-> cluster_id,
                      records |-> get_cluster_records(df, clusters[1], cluster_id)]
    /\ pc' = "queried"
    /\ UNCHANGED <<df, config, candidates, visited, pair_scores, clusters, merged, call>>

\* cli.clean: resolver = MergeResolver(df, KEEP_MOST_COMPLETE);
\* resolver.bulk_merge([c.record_indices for c in clusters])
BulkMerge ==
    /\ pc = "found"
    /\ merged' = bulk_merge(df, [k \in DOMAIN clusters[1] |-> clusters[1][k].record_indices],
                            "keep_most_complete", <<>>)
    /\ pc' = "merged"
    /\ UNCHANGED <<df, config, candidates, visited, pair_scores, clusters, queried, call>>

Next ==
    \/ GetCandidatePairs
    \/ ScoreCandidate
    \/ ClusterPairs
    \/ GetClusterRecords
    \/ BulkMerge

Spec == Init /\ [][Next]_vars

(***************************************************************************)
(* Single calls of the pure helpers, on inputs drawn from bounded sets.    *)
(***************************************************************************)
\* all strings over alphabet of length at most n
Strs(alphabet, n) == UNION {[1..k -> alphabet] : k \in 0..n}

\* the characters the values of a field are drawn from
SimAlphabet(field) ==
    IF field = "email" THEN {"a", "A", "@"}
    ELSE IF field = "phone" THEN {"1", "2", "-"}
    ELSE {"a", "A", "b", " "}

SimFields == {"email", "phone", "last_name"}

InitSim ==
    /\ df = <<>>
    /\ config = None
    /\ pc = "sim"
    /\ candidates = {}
    /\ visited = {}
    /\ pair_scores = <<>>
    /\ clusters = None
    /\ merged = None
    /\ queried = None
    /\ \E field \in SimFields :
       \E val_i \in Strs(SimAlphabet(field), MaxLen) :
       \E val_j \in Strs(SimAlphabet(field), MaxLen) :
          call = [op |-> "args", val_i |-> val_i, val_j |-> val_j, field |-> field,
                  result |-> None]

\* one call of _field_similarity
FieldSimilarityCall ==
    /\ pc = "sim"
    /\ call.op = "args"
    /\ call' = [call EXCEPT !.op = "_field_similarity",
                            !.result = _field_similarity(call.val_i, call.val_j,
                                                         call.field)]
    /\ UNCHANGED <<df, config, pc, candidates, visited, pair_scores, clusters, merged, queried>>

NextSim == FieldSimilarityCall

SpecSim == InitSim /\ [][NextSim]_vars


(***************************************************************************)
(* Claims about _field_similarity, under SpecSim.                          *)
(***************************************************************************)
\* _field_similarity has returned for two non-empty values
SimReturned ==
    /\ pc = "sim"
    /\ call.op = "_field_similarity"
    /\ call.val_i # <<>>
    /\ call.val_j # <<>>

\* what C8 as written says the phone comparison returns
PhoneAsClaimed(val_i, val_j) ==
    LET di == SelectSeq(val_i, IsDigit)
        dj == SelectSeq(val_j, IsDigit)
    IN  IF di = dj THEN One
        ELSE IF IsPrefixOrSuffix(di, dj) \/ IsPrefixOrSuffix(dj, di) THEN Rat(9, 10)
        ELSE Ratio(di, dj)

\* what the phone comparison returns: 0.9 whenever one digit string occurs
\* anywhere inside the other
PhoneAsAmended(val_i, val_j) ==
    LET di == SelectSeq(val_i, IsDigit)
        dj == SelectSeq(val_j, IsDigit)
    IN  IF di = dj THEN One
        ELSE IF Contains(di, dj) \/ Contains(dj, di) THEN Rat(9, 10)
        ELSE Ratio(di, dj)

\* C8 (as written): for two non-empty phone values the result is 1.0 for equal
\* digit strings, 0.9 when one digit string is a prefix or a suffix of the
\* other, and the edit similarity of the digit strings in every other case.
C8_PrefixSuffixOnly ==
    (SimReturned /\ call.field = "phone")
        => call.result = PhoneAsClaimed(call.val_i, call.val_j)

\* C8 (amended): for two non-empty phone values the result is 1.0 for equal
\* digit strings, 0.9 when one digit string is a contiguous substring of the
\* other (anywhere, not only at its start or end), and the edit similarity of
\* the digit strings in every other case.
C8_PhoneSubstring ==
    (SimReturned /\ call.field = "phone")
        => call.result = PhoneAsAmended(call.val_i, call.val_j)

\* C8 witness: a digit string strictly inside the other scored 0.9
C8_Witness ==
    /\ SimReturned
    /\ call.field = "phone"
    /\ call.val_i = <<"2">>
    /\ call.val_j = <<"1", "2", "1">>
    /\ call.result = Rat(9, 10)

\* C9: for two non-empty email values the result is 1.0 when they are equal
\* after lowercasing and 0.0 otherwise, never a value in between; and for
\* every field a case-insensitive exact match of non-empty values gives 1.0.
C9_EmailExactOnly ==
    SimReturned =>
        /\ call.field = "email" =>
              call.result = (IF Lower(call.val_i) = Lower(call.val_j) THEN One ELSE Zero)
        /\ Lower(call.val_i) = Lower(call.val_j) => call.result = One

\* C9 witness: two emails that share characters but differ scored 0.0, not a
\* fuzzy value
C9_Witness ==
    /\ SimReturned
    /\ call.field = "email"
    /\ Lower(call.val_i) # Lower(call.val_j)
    /\ LCS(Lower(call.val_i), Lower(call.val_j)) >= 2
    /\ call.result = Zero


(***************************************************************************)
(* Single calls of _score_pair on a batch of two records.                  *)
(***************************************************************************)
\* the values a field of the two records is drawn from
ScoreValues(field) ==
    IF field = "email"
    THEN {<<>>, <<" ">>, NaN, <<"a", "@", "x">>, <<"A", "@", "x">>, <<"b", "@", "x">>}
    ELSE IF field = "phone"
    THEN {<<>>, <<"1", "2">>, <<"1", "-", "2">>, <<"1", "2", "3">>, <<"2", "1">>}
    ELSE {<<>>, <<"a", "b">>, <<"a", "b", "c">>, <<"z", "z">>}

ScoreColumns == {"email", "phone", "last_name"}

ScoreRecords == {r \in [ScoreColumns -> UNION {ScoreValues(f) : f \in ScoreColumns}] :
                    \A f \in ScoreColumns : r[f] \in ScoreValues(f)}

\* the match_fields the calls are made with: the default, one with a zero
\* weight, one whose only field is no column
MatchFieldSets ==
    { DefaultMatchFields,
      << <<"email", Zero>>, <<"phone", Rat(4, 5)>> >>,
      << <<"company", Rat(2, 5)>> >> }

InitScore ==
    /\ pc = "score"
    /\ candidates = {}
    /\ visited = {}
    /\ pair_scores = <<>>
    /\ clusters = None
    /\ merged = None
    /\ queried = None
    /\ \E r0 \in ScoreRecords : \E r1 \in ScoreRecords :
          df = [idx \in 0..1 |-> IF idx = 0 THEN r0 ELSE r1]
    /\ \E match_fields \in MatchFieldSets :
          config = [match_fields |-> match_fields,
                    duplicate_threshold |-> DefaultThreshold,
                    blocking_fields |-> DefaultBlockingFields]
    /\ call = [op |-> "args", idx_i |-> 0, idx_j |-> 0, result |-> None]

\* one call of _score_pair(idx_i, idx_j)
ScorePairCall ==
    /\ pc = "score"
    /\ call.op = "args"
    /\ \E idx_i \in DOMAIN df : \E idx_j \in DOMAIN df :
          call' = [op |-> "_score_pair", idx_i |-> idx_i, idx_j |-> idx_j,
                   result |-> _score_pair(df, config.match_fields, idx_i, idx_j)]
    /\ UNCHANGED <<df, config, pc, candidates, visited, pair_scores, clusters, merged, queried>>

NextScore == ScorePairCall

SpecScore == InitScore /\ [][NextScore]_vars


(***************************************************************************)
(* Claims about _score_pair, under SpecScore.                              *)
(***************************************************************************)
ScoreReturned == pc = "score" /\ call.op = "_score_pair"

\* the fields match_fields gives a weight
WeightedFields(match_fields) == {match_fields[k][1] : k \in DOMAIN match_fields}

\* match_fields[field]
WeightOf(match_fields, field) ==
    match_fields[CHOOSE k \in DOMAIN match_fields : match_fields[k][1] = field][2]

\* the sum of the weights of the fields in S
RECURSIVE SumWeights(_, _)
SumWeights(match_fields, S) ==
    IF S = {} THEN Zero
    ELSE LET f == CHOOSE x \in S : TRUE
         IN  RAdd(WeightOf(match_fields, f), SumWeights(match_fields, S \ {f}))

\* the sum of similarity * weight over the fields in S
RECURSIVE SumWeighted(_, _, _)
SumWeighted(match_fields, field_scores, S) ==
    IF S = {} THEN Zero
    ELSE LET f == CHOOSE x \in S : TRUE
         IN  RAdd(RMul(field_scores[f], WeightOf(match_fields, f)),
                  SumWeighted(match_fields, field_scores, S \ {f}))

\* C6: _score_pair leaves a weighted field out (no per-field score, no weight)
\* exactly when it is no column or both values are empty; with exactly one
\* empty value the field scores 0 and its weight still counts; the overall
\* score is sum(similarity * weight) / sum(weight) over the fields that were
\* not left out, and 0.0 when they contributed no weight.
C6_ScorePair ==
    ScoreReturned =>
        LET mf == config.match_fields
            fs == call.result.field_scores
            i  == call.idx_i
            j  == call.idx_j
            tw == SumWeights(mf, DOMAIN fs)
        IN  /\ DOMAIN fs \subseteq WeightedFields(mf) \cap Columns(df)
            /\ \A f \in WeightedFields(mf) \cap Columns(df) :
                  LET vi == Strip(PyStr(df[i][f]))
                      vj == Strip(PyStr(df[j][f]))
                  IN  /\ (f \notin DOMAIN fs) <=> (vi = <<>> /\ vj = <<>>)
                      /\ ((vi = <<>>) # (vj = <<>>)) => fs[f] = Zero
            /\ call.result.score =
                  (IF RLess(Zero, tw) THEN RDiv(SumWeighted(mf, fs, DOMAIN fs), tw)
                   ELSE Zero)

\* C6 witness: email empty on both sides (left out), phone empty on one side
\* (scored 0, weight counted), first_name and company no columns, last names
\* 0.8 similar: overall (0.8 * 0 + 0.6 * 0.8) / (0.8 + 0.6) = 12/35
C6_Witness ==
    /\ ScoreReturned
    /\ config.match_fields = DefaultMatchFields
    /\ DOMAIN call.result.field_scores = {"phone", "last_name"}
    /\ call.result.field_scores["phone"] = Zero
    /\ call.result.field_scores["last_name"] = Rat(4, 5)
    /\ call.result.score = Rat(12, 35)

\* R has a non-empty value in a weighted column of positive weight
HasScoredValue(match_fields, idx) ==
    \E f \in WeightedFields(match_fields) \cap Columns(df) :
        /\ Strip(PyStr(df[idx][f])) # <<>>
        /\ RLess(Zero, WeightOf(match_fields, f))

\* C7 (as written): scoring any record against itself, with a non-empty set of
\* weighted fields, gives exactly 1.0.
C7_SelfScoreAlwaysOne ==
    (ScoreReturned /\ call.idx_i = call.idx_j /\ config.match_fields # <<>>)
        => call.result.score = One

\* C7 (amended): scoring a record against itself gives exactly 1.0 when the
\* record has a non-empty value in at least one weighted field that is a
\* column and has a positive weight, and 0.0 when it has none.
C7_SelfScore ==
    (ScoreReturned /\ call.idx_i = call.idx_j)
        => call.result.score =
              (IF HasScoredValue(config.match_fields, call.idx_i) THEN One ELSE Zero)

\* C7 witness: a record with an empty and a non-empty weighted field scored
\* 1.0 against itself
C7_Witness ==
    /\ ScoreReturned
    /\ call.idx_i = call.idx_j
    /\ config.match_fields = DefaultMatchFields
    /\ DOMAIN call.result.field_scores = {"phone"}
    /\ call.result.score = One


(***************************************************************************)
(* Claims about blocking, clustering and bulk merge, under Spec.           *)
(***************************************************************************)
\* find_duplicates has just returned (no later step changes the clusters)
Found == pc = "found"

\* the clusters find_duplicates returned
Returned == clusters[1]

\* the members of the k-th returned cluster
Members(k) == {Returned[k].record_indices[m] : m \in DOMAIN Returned[k].record_indices}

\* _score_pair on every candidate pair
CandidateScores ==
    [p \in candidates |-> _score_pair(df, config.match_fields, p[1], p[2])]

\* the candidate pairs whose overall score reaches duplicate_threshold
Accepted ==
    {p \in candidates : RLeq(config.duplicate_threshold, CandidateScores[p].score)}

\* the indices a chain of pairs of E links to some index of S
RECURSIVE Linked(_, _)
Linked(S, E) ==
    LET more == S \cup {p[2] : p \in {q \in E : q[1] \in S}}
                  \cup {p[1] : p \in {q \in E : q[2] \in S}}
    IN  IF more = S THEN S ELSE Linked(more, E)

\* C1: two record indices are in the same returned cluster if and only if a
\* chain of candidate pairs that each scored >= duplicate_threshold links
\* them; the pairs clustering is given as edges are exactly those accepted
\* pairs, never a candidate that scored lower.
C1_ClustersAreLinkedComponents ==
    Found =>
        LET accepted == Accepted
        IN  /\ ScoredPairs(pair_scores) = accepted
            /\ \A i \in DOMAIN df :
                  LET linked == Linked({i}, accepted)
                  IN  \A j \in DOMAIN df \ {i} :
                         (\E k \in DOMAIN Returned : {i, j} \subseteq Members(k))
                            <=> j \in linked

\* C1 witness: three records in one cluster through two accepted pairs, the
\* pair of the two outer records never a candidate
C1_Witness ==
    /\ Found
    /\ \E k \in DOMAIN Returned :
       \E i, j \in Members(k) :
          /\ i < j
          /\ <<i, j>> \notin candidates
          /\ Cardinality(Members(k)) = 3
    /\ \E p \in candidates : p \notin Accepted

\* C2: no index is in two clusters, every cluster lists at least 2 distinct
\* indices in ascending order, and the cluster sizes plus the number of
\* indices in no cluster add up to the number of records.
C2_ClustersPartition ==
    Found =>
        LET InNone == {i \in DOMAIN df : \A k \in DOMAIN Returned : i \notin Members(k)}
            RECURSIVE Sizes(_)
            Sizes(k) == IF k = 0 THEN 0 ELSE Sizes(k - 1) + Len(Returned[k].record_indices)
        IN  /\ \A k, m \in DOMAIN Returned : k # m => Members(k) \cap Members(m) = {}
            /\ \A k \in DOMAIN Returned :
                  LET ri == Returned[k].record_indices
                  IN  /\ Len(ri) >= 2
                      /\ \A a, b \in DOMAIN ri : a < b => ri[a] < ri[b]
            /\ Sizes(Len(Returned)) + Cardinality(InNone) = NumRows(df)

\* C2 witness: two clusters and a record left in no cluster, the accepted
\* pairs reaching the union-find out of index order
C2_Witness ==
    /\ Found
    /\ Len(Returned) = 2
    /\ \E i \in DOMAIN df : \A k \in DOMAIN Returned : i \notin Members(k)
    /\ \E k \in DOMAIN pair_scores : pair_scores[k].pair[1] > pair_scores[1].pair[1]

\* C3: bulk_merge on the returned clusters gives one MergeResult per cluster
\* and (clusters + unclustered records) rows, and every record index is a
\* source of exactly one row: of one merged record, or of its own unmerged row.
C3_BulkMergeAccountsOnce ==
    pc = "merged" =>
        LET InNone == {i \in DOMAIN df : \A k \in DOMAIN Returned : i \notin Members(k)}
        IN  /\ Len(merged.results) = Len(Returned)
            /\ \A k \in DOMAIN Returned :
                  /\ merged.results[k].source_indices = Returned[k].record_indices
                  /\ merged.rows[k].sources = Returned[k].record_indices
                  /\ merged.rows[k].record = merged.results[k].merged_record
            /\ Len(merged.rows) = Len(Returned) + Cardinality(InNone)
            /\ \A k \in (Len(Returned) + 1)..Len(merged.rows) :
                  /\ Len(merged.rows[k].sources) = 1
                  /\ merged.rows[k].sources[1] \in InNone
                  /\ merged.rows[k].record = df[merged.rows[k].sources[1]]
            /\ \A i \in DOMAIN df :
                  Cardinality({<<k, m>> \in (DOMAIN merged.rows) \X (1..MaxRecords) :
                                  /\ m \in DOMAIN merged.rows[k].sources
                                  /\ merged.rows[k].sources[m] = i}) = 1

\* C3 witness: a merged dataset of one merged row and unmerged rows
C3_Witness ==
    /\ pc = "merged"
    /\ Len(merged.results) = 1
    /\ Len(merged.rows) >= 2
    /\ Len(merged.rows) < NumRows(df)

\* the sum of the overall scores of the pairs in S
RECURSIVE SumScores(_, _)
SumScores(scored, S) ==
    IF S = {} THEN Zero
    ELSE LET p == CHOOSE x \in S : TRUE
         IN  RAdd(scored[p].score, SumScores(scored, S \ {p}))

\* the sum of the similarities of field over the pairs in S
RECURSIVE SumFieldScores(_, _, _)
SumFieldScores(scored, field, S) ==
    IF S = {} THEN Zero
    ELSE LET p == CHOOSE x \in S : TRUE
         IN  RAdd(scored[p].field_scores[field], SumFieldScores(scored, field, S \ {p}))

\* the claim's example: A-B 0.85, B-C 0.82, A-C never compared
ExampleScores ==
    << [pair |-> <<0, 1>>, score |-> Rat(85, 100), field_scores |-> <<>>],
       [pair |-> <<1, 2>>, score |-> Rat(82, 100), field_scores |-> <<>>] >>

\* C4: the confidence of every cluster is the mean of the overall scores of
\* its member pairs that were scored and accepted, and field_similarities is
\* the per-field mean over the same pairs (those that have a similarity for
\* the field); a member pair that was not compared or not accepted is left
\* out, not counted as 0.  The example gives one cluster of confidence 0.835.
C4_ConfidenceIsMeanOfAccepted ==
    /\ Found =>
          LET scored == CandidateScores
              accepted == {p \in candidates :
                              RLeq(config.duplicate_threshold, scored[p].score)}
          IN  \A k \in DOMAIN Returned :
                 LET P == {p \in accepted : p[1] \in Members(k) /\ p[2] \in Members(k)}
                     Having(f) == {p \in P : f \in DOMAIN scored[p].field_scores}
                     fs == Returned[k].field_similarities
                 IN  /\ P # {}
                     /\ Returned[k].confidence =
                           RDiv(SumScores(scored, P), Rat(Cardinality(P), 1))
                     /\ DOMAIN fs = {f \in ScoreColumns : Having(f) # {}}
                     /\ \A f \in DOMAIN fs :
                           fs[f] = RDiv(SumFieldScores(scored, f, Having(f)),
                                        Rat(Cardinality(Having(f)), 1))
    /\ Found =>
          LET example == _cluster_pairs(ExampleScores)
          IN  /\ Len(example) = 1
              /\ example[1].record_indices = <<0, 1, 2>>
              /\ example[1].confidence = Rat(835, 1000)

\* C4 witness: a cluster of three records with two accepted pairs whose
\* confidence is the mean of the two, the third pair never compared
C4_Witness ==
    /\ Found
    /\ \E k \in DOMAIN Returned :
          /\ Cardinality(Members(k)) = 3
          /\ Cardinality({p \in Accepted : p[1] \in Members(k) /\ p[2] \in Members(k)}) = 2
          /\ Returned[k].confidence = Rat(13, 14)

\* the groups of the union-find in the order _cluster_pairs enumerates them
Enumerated ==
    LET parent == UnionLoop(pair_scores, Len(pair_scores))
    IN  GroupLoop(parent, Len(parent.keys))

\* C5: the returned list is ordered by non-increasing confidence; cluster ids
\* are pairwise distinct and each is the position its group had in the
\* enumeration before the sort; get_cluster_records(id) returns the rows of
\* the cluster carrying that id, and no rows for an id no cluster carries.
C5_SortedWithStableIds ==
    /\ Found =>
          /\ \A k, m \in DOMAIN Returned :
                k < m => RLeq(Returned[m].confidence, Returned[k].confidence)
          /\ \A k, m \in DOMAIN Returned :
                k # m => Returned[k].cluster_id # Returned[m].cluster_id
          /\ \A k \in DOMAIN Returned :
                LET pos == Returned[k].cluster_id + 1
                IN  /\ pos \in DOMAIN Enumerated.roots
                    /\ LET group == Enumerated.lists[Enumerated.roots[pos]]
                       IN  {group[m] : m \in DOMAIN group} = Members(k)
    /\ pc = "queried" =>
          LET carrying == {k \in DOMAIN Returned :
                              Returned[k].cluster_id = queried.cluster_id}
          IN  IF carrying = {} THEN queried.records = <<>>
              ELSE \A k \in carrying :
                      /\ Len(queried.records) = Len(Returned[k].record_indices)
                      /\ \A m \in DOMAIN queried.records :
                            /\ queried.records[m].index = Returned[k].record_indices[m]
                            /\ queried.records[m].row = df[Returned[k].record_indices[m]]

\* C5 witness: the sort moved the cluster with id 1 to the front, and
\* get_cluster_records(1) returned its rows
C5_Witness ==
    /\ pc = "queried"
    /\ Len(Returned) = 2
    /\ Returned[1].cluster_id = 1
    /\ RLess(Returned[2].confidence, Returned[1].confidence)
    /\ queried.cluster_id = 1
    /\ Len(queried.records) = 2
    /\ queried.records[1].index = Returned[1].record_indices[1]

\* both records have a value for field that blocking does not skip, and the
\* same non-empty blocking key
ShareBlock(i, j, field) ==
    LET KeyOf(idx) == _normalize_for_blocking(PyStr(df[idx][field]), field)
        Valued(idx) == df[idx][field] # NaN /\ Strip(PyStr(df[idx][field])) # <<>>
    IN  /\ Valued(i)
        /\ Valued(j)
        /\ KeyOf(i) # <<>>
        /\ KeyOf(i) = KeyOf(j)

\* _get_candidate_pairs has just returned (no later step changes the set)
Blocked == pc = "scoring" /\ visited = {}

\* C10: a pair (i, j), i < j, is a candidate if and only if some configured
\* blocking field that is a column gives both records a non-empty value and
\* the same non-empty blocking key; a record with an empty or missing value
\* joins no group of that field, and the pairs of all fields are united.
C10_CandidatesShareBlock ==
    Blocked =>
        candidates =
            {p \in (DOMAIN df) \X (DOMAIN df) :
                /\ p[1] < p[2]
                /\ \E k \in DOMAIN config.blocking_fields :
                      /\ config.blocking_fields[k] \in Columns(df)
                      /\ ShareBlock(p[1], p[2], config.blocking_fields[k])}

\* C10 witness: a pair found through phone only and a pair found through
\* email only are both candidates, while the blank emails of the first pair
\* and the missing phones of the second put them in no group of those fields,
\* and neither does the empty key of a third record's email
C10_Witness ==
    /\ Blocked
    /\ config.blocking_fields = DefaultBlockingFields
    /\ \E p, q \in candidates :
          /\ ShareBlock(p[1], p[2], "phone")
          /\ ~ShareBlock(p[1], p[2], "last_name")
          /\ Strip(df[p[1]]["email"]) = <<>>
          /\ Strip(df[p[2]]["email"]) = <<>>
          /\ ~ShareBlock(p[1], p[2], "email")
          /\ ShareBlock(q[1], q[2], "email")
          /\ df[q[1]]["phone"] = NaN
          /\ df[q[2]]["phone"] = NaN
          /\ ~ShareBlock(q[1], q[2], "phone")
    /\ \E i \in DOMAIN df :
          /\ Strip(df[i]["email"]) # <<>>
          /\ _normalize_for_blocking(df[i]["email"], "email") = <<>>
          /\ \A j \in DOMAIN df : ~ShareBlock(i, j, "email")
    /\ \E i, j \in DOMAIN df :
          /\ i < j
          /\ <<i, j>> \notin candidates

\* the configured blocking fields through which i and j share a block
SharedFields(i, j) ==
    {f \in {config.blocking_fields[k] : k \in DOMAIN config.blocking_fields} \cap Columns(df) :
        ShareBlock(i, j, f)}

\* C11: every candidate pair of the blocking step and every key of the
\* scored-pair map given to clustering is a pair of record indices (i, j)
\* with i < j strictly; no key occurs twice in the scored-pair map, and a pair
\* that several blocking fields find is one element of the candidate set, so
\* it is scored once.
C11_PairsOrderedOnce ==
    /\ \A p \in candidates :
          /\ p[1] \in DOMAIN df
          /\ p[2] \in DOMAIN df
          /\ p[1] < p[2]
    /\ \A k \in DOMAIN pair_scores :
          /\ pair_scores[k].pair \in candidates
          /\ pair_scores[k].pair[1] < pair_scores[k].pair[2]
          /\ \A m \in DOMAIN pair_scores : m # k => pair_scores[m].pair # pair_scores[k].pair
    /\ Found => Len(pair_scores) <= Cardinality(candidates)

\* C11 witness: a pair that the email blocks and the last_name blocks both
\* find is one candidate and one key of the scored-pair map
C11_Witness ==
    /\ Found
    /\ \E k \in DOMAIN pair_scores :
          LET p == pair_scores[k].pair
          IN  /\ Cardinality(SharedFields(p[1], p[2])) >= 2
              /\ Cardinality({q \in candidates : {q[1], q[2]} = {p[1], p[2]}}) = 1


(***************************************************************************)
(* Calls of MergeResolver.merge_records on a batch, twice with the same    *)
(* index list.                                                             *)
(***************************************************************************)
\* the number of rows of a batch given to a MergeResolver
MaxMerge == 3

\* the rows the merged batches are made of: conflicting values of equal and
\* of different length, a repeated value, values equal after stripping, a
\* blank and a missing value, rows that tie on the number of filled fields
MergePool ==
    << Rec(<<"a">>, <<"1">>, <<"x">>),
       Rec(<<"b">>, <<"1">>, <<>>),
       Rec(<<"a">>, <<"2", "2">>, NaN),
       Rec(<<"c", "c">>, <<" ">>, <<"x", " ">>),
       Rec(<<>>, <<>>, <<"y">>) >>

\* the batches: up to MaxMerge different rows of the pool, in any order
MergeBatches ==
    {sel \in UNION {[1..n -> DOMAIN MergePool] : n \in 0..MaxMerge} :
        \A a, b \in DOMAIN sel : a # b => sel[a] # sel[b]}

\* the index lists merge_records is called with: different row positions of
\* the batch in any order
IndexLists(d) ==
    {l \in UNION {[1..n -> DOMAIN d] : n \in 0..NumRows(d)} :
        \A a, b \in DOMAIN l : a # b => l[a] # l[b]}

\* the MergeStrategy tags, and a tag the resolver does not know
Strategies ==
    {"keep_first", "keep_last", "keep_longest", "keep_most_complete", "concatenate",
     "manual", "unknown"}

\* the resolvers: every default strategy, and one per-field override
ResolverConfigs ==
    {[default_strategy |-> st, field_strategies |-> <<>>] : st \in Strategies}
        \cup {[default_strategy |-> "keep_first",
                field_strategies |-> [f \in {"email"} |-> "concatenate"]]}

InitMerge ==
    /\ \E sel \in MergeBatches :
          df = [idx \in 0..(Len(sel) - 1) |-> MergePool[sel[idx + 1]]]
    /\ config \in ResolverConfigs
    /\ pc = "merge"
    /\ candidates = {}
    /\ visited = {}
    /\ pair_scores = <<>>
    /\ clusters = None
    /\ merged = None
    /\ queried = None
    /\ \E indices \in IndexLists(df) :
          call = [op |-> "args", indices |-> indices, results |-> <<>>, before |-> df]

\* one call of merge_records(indices); the caller makes two in a row
MergeRecordsCall ==
    /\ pc = "merge"
    /\ Len(call.results) < 2
    /\ LET result == merge_records(df, call.indices, config.default_strategy,
                                    config.field_strategies)
       IN  /\ call' = [call EXCEPT !.op = "merge_records",
                                    !.results = Append(@, result)]
           /\ df' = ResolverDf(df, call.indices, result)
    /\ UNCHANGED <<config, pc, candidates, visited, pair_scores, clusters, merged, queried>>

NextMerge == MergeRecordsCall

SpecMerge == InitMerge /\ [][NextMerge]_vars


(***************************************************************************)
(* Claims about MergeResolver, under SpecMerge.                            *)
(***************************************************************************)
\* merge_records has returned
MergeReturned == pc = "merge" /\ Len(call.results) >= 1

\* merge_records has returned for two or more records, so that every field
\* went through _resolve_field
MergedMany == MergeReturned /\ Len(call.indices) >= 2

\* what the first call returned
FirstResult == call.results[1]

\* the fields of the batch
MergeFields == Columns(call.before)

\* the strategy the resolver applies to field
StrategyFor(field) ==
    IF field \in DOMAIN config.field_strategies THEN config.field_strategies[field]
    ELSE config.default_strategy

\* the value record idx has for field: stripped, empty when missing
FieldValue(idx, field) ==
    IF call.before[idx][field] = NaN THEN <<>> ELSE Strip(call.before[idx][field])

\* the positions in the supplied index list of the records with a non-empty
\* value for field
Holders(field) ==
    {k \in DOMAIN call.indices : FieldValue(call.indices[k], field) # <<>>}

\* the decision merge_records recorded for field
DecisionOf(field) ==
    FirstResult.decisions[CHOOSE k \in DOMAIN FirstResult.decisions :
                             FirstResult.decisions[k].field = field]

\* the entries of a sequence
Range(seq) == {seq[k] : k \in DOMAIN seq}

\* the number of fields whose decision has alternatives
WithAlternatives ==
    Cardinality({f \in MergeFields : DecisionOf(f).alternatives # <<>>})

\* C12 (as written): for every merge of two or more records the confidence is
\* the number of fields whose decision has no alternatives divided by the
\* number of fields.
C12_ConfidenceIsFraction ==
    MergedMany =>
        FirstResult.confidence =
            Rat(Cardinality(MergeFields) - WithAlternatives, Cardinality(MergeFields))

\* C12 (amended): for every merge of two or more records over at least one
\* field the confidence is the mean over the fields of 1.0 for a decision
\* without alternatives and 0.5 for a decision with alternatives.
C12_ConfidenceIsAgreementMean ==
    MergedMany =>
        /\ Len(FirstResult.decisions) = Cardinality(MergeFields)
        /\ \A f \in MergeFields :
              \E k \in DOMAIN FirstResult.decisions : FirstResult.decisions[k].field = f
        /\ FirstResult.confidence =
              Rat(2 * (Cardinality(MergeFields) - WithAlternatives) + WithAlternatives,
                  2 * Cardinality(MergeFields))

\* C12 witness: one field of three has alternatives and the confidence is
\* (1 + 1 + 0.5) / 3 = 5/6, not 2/3
C12_Witness ==
    /\ MergedMany
    /\ WithAlternatives = 1
    /\ FirstResult.confidence = Rat(5, 6)

\* C13: for every field with two or more non-empty values, under every
\* strategy, the alternatives are exactly the (source index, value) entries
\* of the non-empty values that differ from chosen_value, and none of them
\* has a value equal to chosen_value.
C13_AlternativesAreDiffering ==
    MergedMany =>
        \A f \in MergeFields :
            Cardinality(Holders(f)) >= 2 =>
                /\ Range(DecisionOf(f).alternatives) =
                      {<<call.indices[k], FieldValue(call.indices[k], f)>> :
                          k \in {h \in Holders(f) :
                                    FieldValue(call.indices[h], f) # DecisionOf(f).chosen_value}}
                /\ \A a \in Range(DecisionOf(f).alternatives) :
                      a[2] # DecisionOf(f).chosen_value

\* C14: when no record has a value for the field the decision is the empty
\* value, sourced from the first supplied index, without alternatives; when
\* exactly one record has a value, it is chosen with that record as source
\* and without alternatives, whatever the strategy.
C14_EmptyAndSingleValue ==
    MergedMany =>
        \A f \in MergeFields :
            /\ Holders(f) = {} =>
                  /\ DecisionOf(f).chosen_value = <<>>
                  /\ DecisionOf(f).source_index = call.indices[1]
                  /\ DecisionOf(f).alternatives = <<>>
            /\ Cardinality(Holders(f)) = 1 =>
                  LET h == CHOOSE k \in Holders(f) : TRUE
                  IN  /\ DecisionOf(f).chosen_value = FieldValue(call.indices[h], f)
                      /\ DecisionOf(f).source_index = call.indices[h]
                      /\ DecisionOf(f).alternatives = <<>>

\* C14 witness: under concatenate one field is empty in every record and
\* another has its only value in a record that is not the first supplied
C14_Witness ==
    /\ MergedMany
    /\ config.default_strategy = "concatenate"
    /\ \E f, g \in MergeFields :
          /\ Holders(f) = {}
          /\ DecisionOf(f).source_index = call.indices[1]
          /\ Cardinality(Holders(g)) = 1
          /\ 1 \notin Holders(g)
          /\ DecisionOf(g).source_index # call.indices[1]
          /\ DecisionOf(g).chosen_value # <<>>

\* the number of non-empty fields of record idx
FilledCount(idx) == Cardinality({f \in MergeFields : FieldValue(idx, f) # <<>>})

\* the holders of field whose record has the most non-empty fields
MostComplete(field) ==
    {k \in Holders(field) :
        \A m \in Holders(field) : FilledCount(call.indices[m]) <= FilledCount(call.indices[k])}

\* C15 (as written): under keep_most_complete, for every field with two or
\* more non-empty values and every supplied order of the indices, the value
\* comes from the record with the most non-empty fields among the records
\* with a value for the field, and of several such records the one with the
\* lowest index is the source.
C15_TieLowestIndex ==
    MergedMany =>
        \A f \in MergeFields :
            (StrategyFor(f) = "keep_most_complete" /\ Cardinality(Holders(f)) >= 2) =>
                LET k == CHOOSE k \in MostComplete(f) :
                            \A m \in MostComplete(f) : call.indices[k] <= call.indices[m]
                IN  /\ DecisionOf(f).source_index = call.indices[k]
                    /\ DecisionOf(f).chosen_value = FieldValue(call.indices[k], f)

\* C15 (amended): ... and of several such records the one that comes first
\* in the supplied index order is the source (the lowest index when the
\* indices are supplied in ascending order).
C15_TieFirstSupplied ==
    MergedMany =>
        \A f \in MergeFields :
            (StrategyFor(f) = "keep_most_complete" /\ Cardinality(Holders(f)) >= 2) =>
                LET k == CHOOSE k \in MostComplete(f) : \A m \in MostComplete(f) : k <= m
                IN  /\ DecisionOf(f).source_index = call.indices[k]
                    /\ DecisionOf(f).chosen_value = FieldValue(call.indices[k], f)

\* C15 witness: two records tie on the number of filled fields, the one
\* supplied first has the higher index and is the source, while a record
\* supplied before both has no value for the field
C15_Witness ==
    /\ MergedMany
    /\ \E f \in MergeFields :
          /\ StrategyFor(f) = "keep_most_complete"
          /\ Cardinality(MostComplete(f)) >= 2
          /\ 1 \notin Holders(f)
          /\ \E k \in MostComplete(f) :
                /\ DecisionOf(f).source_index = call.indices[k]
                /\ \E m \in MostComplete(f) : call.indices[m] < call.indices[k]
                /\ \E m \in Holders(f) :
                      FieldValue(call.indices[m], f) # DecisionOf(f).chosen_value

\* the holders of field in the supplied order
RECURSIVE HolderSeq(_, _)
HolderSeq(field, n) ==
    IF n = 0 THEN <<>>
    ELSE IF n \in Holders(field) THEN Append(HolderSeq(field, n - 1), n)
    ELSE HolderSeq(field, n - 1)

\* the holders of field whose value no earlier holder has
FirstSeen(field) ==
    SelectSeq(HolderSeq(field, Len(call.indices)),
              LAMBDA k : \A m \in Holders(field) :
                            m < k => FieldValue(call.indices[m], field)
                                        # FieldValue(call.indices[k], field))

\* the values of the first n of the holders in ks, "; " between them
RECURSIVE JoinedValues(_, _, _)
JoinedValues(field, ks, n) ==
    IF n = 0 THEN <<>>
    ELSE IF n = 1 THEN FieldValue(call.indices[ks[1]], field)
    ELSE JoinedValues(field, ks, n - 1) \o <<";", " ">>
            \o FieldValue(call.indices[ks[n]], field)

\* the claim's example: the notes of three records
ExampleNotes ==
    << <<0, <<"C", "a", "l", "l", "e", "d", " ", "o", "n", "c", "e">>>>,
       <<1, <<"C", "a", "l", "l", "e", "d", " ", "o", "n", "c", "e">>>>,
       <<2, <<"L", "e", "f", "t", " ", "v", "o", "i", "c", "e", "m", "a", "i", "l">>>> >>

\* C16: under concatenate, for a field with two or more non-empty values,
\* chosen_value is the distinct non-empty values joined with "; " in order of
\* first appearance, each once; the values Called once, Called once,
\* Left voicemail give "Called once; Left voicemail".
C16_ConcatenateDistinct ==
    /\ MergedMany =>
          \A f \in MergeFields :
              (StrategyFor(f) = "concatenate" /\ Cardinality(Holders(f)) >= 2) =>
                  DecisionOf(f).chosen_value =
                      JoinedValues(f, FirstSeen(f), Len(FirstSeen(f)))
    /\ MergeReturned =>
          _apply_strategy(df, ExampleNotes, "concatenate")[2] =
              <<"C", "a", "l", "l", "e", "d", " ", "o", "n", "c", "e", ";", " ", "L", "e", "f", "t", " ", "v", "o", "i", "c", "e", "m", "a", "i", "l">>

\* C16 witness: three values, the first repeated by the third, are joined
\* as two
C16_Witness ==
    /\ MergedMany
    /\ \E f \in MergeFields :
          /\ StrategyFor(f) = "concatenate"
          /\ Cardinality(Holders(f)) = 3
          /\ Len(FirstSeen(f)) = 2
          /\ FieldValue(call.indices[1], f) = FieldValue(call.indices[3], f)
          /\ DecisionOf(f).chosen_value = <<"a", ";", " ", "b">>

\* the first and the last holder of field in the supplied order
FirstHolder(field) == CHOOSE k \in Holders(field) : \A m \in Holders(field) : k <= m

LastHolder(field) == CHOOSE k \in Holders(field) : \A m \in Holders(field) : m <= k

\* C17: for a field with two or more non-empty values keep_first takes the
\* value of the first record in the supplied order that has one, keep_last
\* that of the last such record, and manual, like a strategy the resolver
\* does not know, returns the value and source keep_first does.
C17_FirstLastFallback ==
    MergedMany =>
        \A f \in MergeFields :
            Cardinality(Holders(f)) >= 2 =>
                /\ StrategyFor(f) \in {"keep_first", "manual", "unknown"} =>
                      /\ DecisionOf(f).source_index = call.indices[FirstHolder(f)]
                      /\ DecisionOf(f).chosen_value =
                            FieldValue(call.indices[FirstHolder(f)], f)
                /\ StrategyFor(f) = "keep_last" =>
                      /\ DecisionOf(f).source_index = call.indices[LastHolder(f)]
                      /\ DecisionOf(f).chosen_value =
                            FieldValue(call.indices[LastHolder(f)], f)

\* C17 witness: an unknown strategy took the value of the first record with
\* a value, which is neither the first supplied record nor of the value of
\* the last
C17_Witness ==
    /\ MergedMany
    /\ config.default_strategy = "unknown"
    /\ \E f \in MergeFields :
          /\ Cardinality(Holders(f)) >= 2
          /\ FirstHolder(f) # 1
          /\ DecisionOf(f).source_index = call.indices[FirstHolder(f)]
          /\ DecisionOf(f).chosen_value # FieldValue(call.indices[LastHolder(f)], f)

\* the holders of field whose value is as long as any
Longest(field) ==
    {k \in Holders(field) :
        \A m \in Holders(field) :
            Len(FieldValue(call.indices[m], field)) <= Len(FieldValue(call.indices[k], field))}

\* C18: under keep_longest, for a field with two or more non-empty values,
\* the chosen value has maximal length among the non-empty values, and of
\* several values of that length the first in the supplied order is chosen.
C18_LongestFirst ==
    MergedMany =>
        \A f \in MergeFields :
            (StrategyFor(f) = "keep_longest" /\ Cardinality(Holders(f)) >= 2) =>
                LET k == CHOOSE k \in Longest(f) : \A m \in Longest(f) : k <= m
                IN  /\ DecisionOf(f).source_index = call.indices[k]
                    /\ DecisionOf(f).chosen_value = FieldValue(call.indices[k], f)

\* C18 witness: two different values of the same maximal length; the one
\* supplied first is chosen, although its record has the higher index
C18_Witness ==
    /\ MergedMany
    /\ \E f \in MergeFields :
          /\ StrategyFor(f) = "keep_longest"
          /\ \E k, m \in Longest(f) :
                /\ k < m
                /\ call.indices[m] < call.indices[k]
                /\ FieldValue(call.indices[k], f) # FieldValue(call.indices[m], f)
                /\ DecisionOf(f).source_index = call.indices[k]

Col(name, aliases) == [name |-> name, aliases |-> aliases]

\* _default_schema()["columns"]
DefaultSchema ==
    << Col(<<"f", "i", "r", "s", "t", "_", "n", "a", "m", "e">>,
           << <<"f", "i", "r", "s", "t", "n", "a", "m", "e">>,
              <<"f", "n", "a", "m", "e">>,
              <<"g", "i", "v", "e", "n", "_", "n", "a", "m", "e">>,
              <<"g", "i", "v", "e", "n", "n", "a", "m", "e">> >>),
       Col(<<"l", "a", "s", "t", "_", "n", "a", "m", "e">>,
           << <<"l", "a", "s", "t", "n", "a", "m", "e">>,
              <<"l", "n", "a", "m", "e">>,
              <<"s", "u", "r", "n", "a", "m", "e">>,
              <<"f", "a", "m", "i", "l", "y", "_", "n", "a", "m", "e">> >>),
       Col(<<"e", "m", "a", "i", "l">>,
           << <<"e", "m", "a", "i", "l", "_", "a", "d", "d", "r", "e", "s", "s">>,
              <<"e", "_", "m", "a", "i", "l">>,
              <<"m", "a", "i", "l">> >>),
       Col(<<"p", "h", "o", "n", "e">>,
           << <<"p", "h", "o", "n", "e", "_", "n", "u", "m", "b", "e", "r">>,
              <<"t", "e", "l", "e", "p", "h", "o", "n", "e">>,
              <<"t", "e", "l">>,
              <<"m", "o", "b", "i", "l", "e">>,
              <<"c", "e", "l", "l">> >>),
       Col(<<"c", "o", "m", "p", "a", "n", "y">>,
           << <<"o", "r", "g", "a", "n", "i", "z", "a", "t", "i", "o", "n">>,
              <<"o", "r", "g">>,
              <<"e", "m", "p", "l", "o", "y", "e", "r">>,
              <<"c", "o", "m", "p", "a", "n", "y", "_", "n", "a", "m", "e">> >>),
       Col(<<"t", "i", "t", "l", "e">>,
           << <<"j", "o", "b", "_", "t", "i", "t", "l", "e">>,
              <<"p", "o", "s", "i", "t", "i", "o", "n">>,
              <<"r", "o", "l", "e">> >>),
       Col(<<"a", "d", "d", "r", "e", "s", "s">>,
           << <<"s", "t", "r", "e", "e", "t">>,
              <<"s", "t", "r", "e", "e", "t", "_", "a", "d", "d", "r", "e", "s", "s">>,
              <<"a", "d", "d", "r", "e", "s", "s", "_", "l", "i", "n", "e", "_", "1">> >>),
       Col(<<"c", "i", "t", "y">>,
           << <<"t", "o", "w", "n">>,
              <<"l", "o", "c", "a", "l", "i", "t", "y">> >>),
       Col(<<"s", "t", "a", "t", "e">>,
           << <<"p", "r", "o", "v", "i", "n", "c", "e">>,
              <<"r", "e", "g", "i", "o", "n">>,
              <<"s", "t", "a", "t", "e", "_", "p", "r", "o", "v", "i", "n", "c", "e">> >>),
       Col(<<"p", "o", "s", "t", "a", "l", "_", "c", "o", "d", "e">>,
           << <<"z", "i", "p">>,
              <<"z", "i", "p", "_", "c", "o", "d", "e">>,
              <<"z", "i", "p", "c", "o", "d", "e">>,
              <<"p", "o", "s", "t", "c", "o", "d", "e">> >>),
       Col(<<"c", "o", "u", "n", "t", "r", "y">>,
           << <<"n", "a", "t", "i", "o", "n">>,
              <<"c", "o", "u", "n", "t", "r", "y", "_", "c", "o", "d", "e">> >>) >>

\* DEFAULT_THRESHOLD = 0.7
DEFAULT_THRESHOLD == Rat(7, 10)

\* process.extract(..., limit=5)
ExtractLimit == 5

\* self._canonical_columns = list(self.schema.get("columns", {}).keys())
CanonicalColumns(schema) == [k \in DOMAIN schema |-> schema[k].name]

\* the assignments "alias_map[...] = canonical" of _build_alias_map: <<k, 0>>
\* writes the canonical name of column k, <<k, a>> its a-th alias
AliasWrites(schema) ==
    UNION {{<<k, a>> : a \in 0..Len(schema[k].aliases)} : k \in DOMAIN schema}

\* the key of an assignment: canonical, or alias.lower()
AliasKey(schema, w) ==
    IF w[2] = 0 THEN schema[w[1]].name ELSE Lower(schema[w[1]].aliases[w[2]])

\* the order in which the two loops make the assignments
WrittenBefore(v, w) == v[1] < w[1] \/ (v[1] = w[1] /\ v[2] < w[2])

\* _build_alias_map: a key stands where its first assignment put it and
\* holds what its last assignment wrote
_build_alias_map(schema) ==
    LET writes == AliasWrites(schema)
        key == [w \in writes |-> AliasKey(schema, w)]
        firsts == {w \in writes : \A v \in writes : key[v] = key[w] => ~WrittenBefore(v, w)}
        place == [w \in firsts |-> Cardinality({v \in firsts : WrittenBefore(v, w)}) + 1]
        last == [w \in firsts |->
                    CHOOSE v \in writes :
                        /\ key[v] = key[w]
                        /\ \A u \in writes : key[u] = key[w] => ~WrittenBefore(v, u)]
    IN  [keys |-> [r \in 1..Cardinality(firsts) |->
                      key[CHOOSE w \in firsts : place[w] = r]],
         map |-> [t \in {key[w] : w \in firsts} |->
                     schema[(last[CHOOSE w \in firsts : key[w] = t])[1]].name]]

\* a match stands before another when it scores higher, or scores the same
\* and its target comes first
MatchBefore(x, y) == RLess(y[3], x[3]) \/ (x[3] = y[3] /\ x[1] < y[1])

\* process.extract(normalized, all_targets, scorer=fuzz.token_sort_ratio,
\* limit=5): the targets with their scores (divided by 100), best first
Extract(normalized, targets) ==
    LET scored == [k \in DOMAIN targets |->
                      <<k, targets[k], TokenSortRatio(normalized, targets[k])>>]
        sorted == SortSeq(scored, MatchBefore)
        n == IF Len(targets) < ExtractLimit THEN Len(targets) ELSE ExtractLimit
    IN  [r \in 1..n |-> <<sorted[r][2], sorted[r][3]>>]

\* "Build alternatives (excluding the best match)" over matches[1:k]:
\* the alternatives and seen_canonical
RECURSIVE AlternativesLoop(_, _, _, _)
AlternativesLoop(matches, alias_map, canonical, k) ==
    IF k <= 1 THEN [alternatives |-> <<>>, seen_canonical |-> {canonical}]
    ELSE LET acc == AlternativesLoop(matches, alias_map, canonical, k - 1)
             alt_canonical == alias_map.map[matches[k][1]]
         IN  IF alt_canonical \in acc.seen_canonical THEN acc
             ELSE [alternatives |-> Append(acc.alternatives, <<alt_canonical, matches[k][2]>>),
                   seen_canonical |-> acc.seen_canonical \cup {alt_canonical}]

\* mutant: the alternatives are not cut to three entries
FuzzyMatch_Uncut(source_column, normalized, alias_map, threshold) ==
    LET matches == Extract(normalized, alias_map.keys)
    IN  IF matches = <<>>
        THEN [source_column |-> source_column, canonical_column |-> None,
              confidence |-> Zero, match_type |-> "none", alternatives |-> <<>>]
        ELSE LET confidence == matches[1][2]
                 canonical == alias_map.map[matches[1][1]]
                 alternatives == AlternativesLoop(matches, alias_map, canonical,
                                                  Len(matches)).alternatives
             IN  IF RLeq(threshold, confidence)
                 THEN [source_column |-> source_column,
                       canonical_column |-> Some(canonical),
                       confidence |-> confidence, match_type |-> "fuzzy",
                       alternatives |-> alternatives]
                 ELSE [source_column |-> source_column, canonical_column |-> None,
                       confidence |-> confidence, match_type |-> "none",
                       alternatives |-> <<<<canonical, confidence>>>> \o alternatives]

\* the fuzzy step of match_column
FuzzyMatch(source_column, normalized, alias_map, threshold) ==
    LET matches == Extract(normalized, alias_map.keys)
    IN  IF matches = <<>>
        THEN [source_column |-> source_column, canonical_column |-> None,
              confidence |-> Zero, match_type |-> "none", alternatives |-> <<>>]
        ELSE LET confidence == matches[1][2]
                 canonical == alias_map.map[matches[1][1]]
                 alternatives == AlternativesLoop(matches, alias_map, canonical,
                                                  Len(matches)).alternatives
             IN  IF RLeq(threshold, confidence)
                 THEN [source_column |-> source_column,
                       canonical_column |-> Some(canonical),
                       confidence |-> confidence, match_type |-> "fuzzy",
                       alternatives |-> SubSeq(alternatives, 1,
                                               IF Len(alternatives) < 3
                                               THEN Len(alternatives) ELSE 3)]
                 ELSE [source_column |-> source_column, canonical_column |-> None,
                       confidence |-> confidence, match_type |-> "none",
                       alternatives |->
                           <<<<canonical, confidence>>>>
                               \o SubSeq(alternatives, 1,
                                          IF Len(alternatives) < 2
                                          THEN Len(alternatives) ELSE 2)]

\* mutant: the alias map is consulted before the canonical names
MatchStep_AliasFirst(normalized, canonical_columns, alias_map) ==
    IF normalized \in DOMAIN alias_map.map THEN "alias"
    ELSE IF \E k \in DOMAIN canonical_columns : canonical_columns[k] = normalized
    THEN "exact"
    ELSE "fuzzy"

\* the step of match_column that returns: the first of exact, alias, fuzzy
MatchStep(normalized, canonical_columns, alias_map) ==
    IF \E k \in DOMAIN canonical_columns : canonical_columns[k] = normalized
    THEN "exact"
    ELSE IF normalized \in DOMAIN alias_map.map THEN "alias"
    ELSE "fuzzy"

\* ColumnMatcher.__init__: the matcher built on a schema
ColumnMatcher(schema) ==
    [schema |-> schema,
     _canonical_columns |-> CanonicalColumns(schema),
     _alias_map |-> _build_alias_map(schema)]

\* mutant: the label is trimmed but keeps its letter case
match_column_KeepCase(self, source_column, threshold) ==
    LET normalized == Strip(source_column)
        step == MatchStep(normalized, self._canonical_columns, self._alias_map)
    IN  IF step = "exact"
        THEN [source_column |-> source_column, canonical_column |-> Some(normalized),
              confidence |-> One, match_type |-> "exact", alternatives |-> <<>>]
        ELSE IF step = "alias"
        THEN [source_column |-> source_column,
              canonical_column |-> Some(self._alias_map.map[normalized]),
              confidence |-> One, match_type |-> "alias", alternatives |-> <<>>]
        ELSE FuzzyMatch(source_column, normalized, self._alias_map, threshold)

\* self.match_column(source_column, threshold)
match_column(self, source_column, threshold) ==
    LET normalized == Strip(Lower(source_column))
        step == MatchStep(normalized, self._canonical_columns, self._alias_map)
    IN  IF step = "exact"
        THEN [source_column |-> source_column, canonical_column |-> Some(normalized),
              confidence |-> One, match_type |-> "exact", alternatives |-> <<>>]
        ELSE IF step = "alias"
        THEN [source_column |-> source_column,
              canonical_column |-> Some(self._alias_map.map[normalized]),
              confidence |-> One, match_type |-> "alias", alternatives |-> <<>>]
        ELSE FuzzyMatch(source_column, normalized, self._alias_map, threshold)

(***************************************************************************)
(* Single calls of match_column, on schemas and labels from bounded sets.  *)
(***************************************************************************)
\* the schemas: the default one; one whose aliases are shared, mixed-case
\* and equal to a canonical name; one with an upper-case canonical name and
\* an alias that a later canonical name equals; one without columns; one
\* column without aliases
Schemas ==
    { DefaultSchema,
      << Col(<<"a">>, << <<"b">>, <<"A", "b">> >>),
         Col(<<"a", "b">>, << <<"b">>, <<"a", " ", "b">> >>) >>,
      << Col(<<"A">>, << <<"a">>, <<"b", "a">> >>),
         Col(<<"b">>, << <<"A">>, <<"B", "A">> >>),
         Col(<<"b", "b">>, << <<"b">> >>) >>,
      <<>>,
      << Col(<<"a", " ", "b">>, <<>>) >> }

\* the labels of the default schema's tests, in several spellings
TestLabels ==
    { <<"e", "m", "a", "i", "l">>,
      <<" ", "E", "m", "a", "i", "l">>,
      <<"f", "i", "r", "s", "t", "n", "a", "m", "e">>,
      <<"F", "I", "R", "S", "T", "N", "A", "M", "E", " ">>,
      <<"z", "i", "p">>,
      <<"f", "i", "r", "s", "t", "_", "n", "a", "m">>,
      <<"x", "y", "z", "_", "r", "a", "n", "d", "o", "m", "_", "c", "o", "l", "u", "m", "n">>,
      <<"p", "h", "o", "n", "e", "_", "n", "u", "m", "b", "e", "r">>,
      <<"F", "i", "r", "s", "t", "N", "a", "m", "e">>,
      <<"u", "n", "k", "n", "o", "w", "n", "_", "c", "o", "l">>,
      <<"n", "a", "m", "e">>,
      <<"x", "y", "z", "_", "r", "a", "n", "d", "o", "m">>,
      <<"a", "b", "c", "_", "u", "n", "k", "n", "o", "w", "n">> }

\* a label that is a canonical name and a later column's alias in all but
\* letter case and a leading blank
ShadowLabels == { <<" ", "B">> }

\* the labels: every string over letters in both cases and the blank, up to
\* MaxLen, the test labels and the shadowed one
Labels == Strs({"a", "A", "b", " "}, MaxLen) \cup TestLabels \cup ShadowLabels

Thresholds == {DEFAULT_THRESHOLD, Rat(9, 10)}

InitColumn ==
    /\ df = <<>>
    /\ \E schema \in Schemas : config = ColumnMatcher(schema)
    /\ pc = "column"
    /\ candidates = {}
    /\ visited = {}
    /\ pair_scores = <<>>
    /\ clusters = None
    /\ merged = None
    /\ queried = None
    /\ \E source_column \in Labels : \E threshold \in Thresholds :
          call = [op |-> "args", source_column |-> source_column,
                  threshold |-> threshold, result |-> None]

\* one call of match_column(source_column, threshold)
MatchColumnCall ==
    /\ pc = "column"
    /\ call.op = "args"
    /\ call' = [call EXCEPT !.op = "match_column",
                            !.result = match_column(config, call.source_column,
                                                    call.threshold)]
    /\ UNCHANGED <<df, config, pc, candidates, visited, pair_scores, clusters, merged, queried>>

NextColumn == MatchColumnCall

SpecColumn == InitColumn /\ [][NextColumn]_vars

(***************************************************************************)
(* Claims about ColumnMatcher, under SpecColumn.                           *)
(***************************************************************************)
ColumnReturned == pc = "column" /\ call.op = "match_column"

\* the label trimmed and lowercased
Normalized == Strip(Lower(call.source_column))

\* the canonical names of the schema
CanonicalNames == {config.schema[k].name : k \in DOMAIN config.schema}

\* the columns that list an alias which, lowercased, is the label s
AliasOwners(s) ==
    {k \in DOMAIN config.schema :
        \E a \in DOMAIN config.schema[k].aliases : Lower(config.schema[k].aliases[a]) = s}

\* C20: match_column resolves exact, alias, fuzzy, first hit wins: a label
\* that trimmed and lowercased equals a canonical name is returned with that
\* name, confidence 1.0 and match_type exact; otherwise a label that equals a
\* lowercased alias is returned with the alias's canonical owner (the last
\* column that lists it), confidence 1.0 and match_type alias; both without
\* alternatives; any other label goes to the fuzzy step.
C20_ExactThenAlias ==
    ColumnReturned =>
        /\ call.result.source_column = call.source_column
        /\ Normalized \in CanonicalNames =>
              /\ call.result.canonical_column = Some(Normalized)
              /\ call.result.confidence = One
              /\ call.result.match_type = "exact"
              /\ call.result.alternatives = <<>>
        /\ (Normalized \notin CanonicalNames /\ AliasOwners(Normalized) # {}) =>
              LET owner == CHOOSE k \in AliasOwners(Normalized) :
                              \A m \in AliasOwners(Normalized) : m <= k
              IN  /\ call.result.canonical_column = Some(config.schema[owner].name)
                  /\ call.result.confidence = One
                  /\ call.result.match_type = "alias"
                  /\ call.result.alternatives = <<>>
        /\ (Normalized \notin CanonicalNames /\ AliasOwners(Normalized) = {}) =>
              call.result.match_type \in {"fuzzy", "none"}

\* C20 witness: the label " B" trims and lowercases to the canonical name b,
\* which is also an alias of the later column bb; the match is the exact one
C20_Witness ==
    /\ ColumnReturned
    /\ call.source_column = <<" ", "B">>
    /\ Normalized \in CanonicalNames
    /\ AliasOwners(Normalized) # {}
    /\ config._alias_map.map[Normalized] # Normalized
    /\ call.result.match_type = "exact"
    /\ call.result.canonical_column = Some(<<"b">>)

\* labels that differ from the matched one only in letter case or in
\* surrounding whitespace: its trimmed lower-case form, which all labels of
\* its class share, and the label between two blanks
CaseVariants ==
    {Normalized, <<" ">> \o call.source_column \o <<" ">>} \ {call.source_column}

\* what a match resolves to: everything but the label it echoes
Resolution(match) ==
    [canonical_column |-> match.canonical_column, confidence |-> match.confidence,
     match_type |-> match.match_type, alternatives |-> match.alternatives]

\* C21 as stated: two labels that differ only in letter case or surrounding
\* whitespace yield identical ColumnMatch values.
C21_IdenticalMatch ==
    ColumnReturned =>
        \A other \in CaseVariants :
            match_column(config, other, call.threshold) = call.result

\* C21: two labels that differ only in letter case or surrounding whitespace
\* resolve identically (canonical_column, confidence, match_type and
\* alternatives are equal), while each match echoes its own label as given
\* in source_column.
C21_CaseInsensitive ==
    ColumnReturned =>
        /\ call.result.source_column = call.source_column
        /\ \A other \in CaseVariants :
              LET match == match_column(config, other, call.threshold)
              IN  /\ Resolution(match) = Resolution(call.result)
                  /\ match.source_column = other

\* C21 witness: FIRSTNAME with a trailing blank resolves through the alias
\* firstname of the default schema, and firstname itself is another label
C21_Witness ==
    /\ ColumnReturned
    /\ config.schema = DefaultSchema
    /\ call.source_column = <<"F", "I", "R", "S", "T", "N", "A", "M", "E", " ">>
    /\ <<"f", "i", "r", "s", "t", "n", "a", "m", "e">> \in CaseVariants
    /\ call.result.match_type = "alias"
    /\ call.result.canonical_column =
          Some(<<"f", "i", "r", "s", "t", "_", "n", "a", "m", "e">>)

\* the label reaches the fuzzy step: it is no canonical name and no alias
InFuzzyStep ==
    /\ ColumnReturned
    /\ Normalized \notin CanonicalNames
    /\ AliasOwners(Normalized) = {}

\* the targets of the fuzzy step with their position and score
ScoredKeys ==
    {<<k, TokenSortRatio(Normalized, config._alias_map.keys[k])>> :
        k \in DOMAIN config._alias_map.keys}

\* the best of a set of scored targets: no other scores higher, and none
\* that scores the same stands earlier
BestOf(scored) ==
    CHOOSE p \in scored :
        \A q \in scored : RLess(q[2], p[2]) \/ (q[2] = p[2] /\ p[1] <= q[1])

\* the canonical names of a list of alternatives are pairwise distinct
DistinctNames(alternatives) ==
    \A x, y \in DOMAIN alternatives :
        alternatives[x][1] = alternatives[y][1] => x = y

\* C22: in the fuzzy step, a best score >= threshold gives match_type fuzzy
\* and the canonical owner of the best target; a best score below it gives
\* canonical_column None, match_type none and the best candidate with its
\* score as the first alternative; a matcher without targets gives none
\* with no alternatives; the alternatives are at most 3 with pairwise
\* distinct canonical names.
C22_FuzzyStep ==
    InFuzzyStep =>
        LET scored == ScoredKeys
            result == call.result
        IN  /\ Len(result.alternatives) <= 3
            /\ DistinctNames(result.alternatives)
            /\ scored = {} =>
                  /\ result.canonical_column = None
                  /\ result.match_type = "none"
                  /\ result.confidence = Zero
                  /\ result.alternatives = <<>>
            /\ scored # {} =>
                  LET best == BestOf(scored)
                      owner == config._alias_map.map[config._alias_map.keys[best[1]]]
                  IN  /\ result.confidence = best[2]
                      /\ RLeq(call.threshold, best[2]) =>
                            /\ result.match_type = "fuzzy"
                            /\ result.canonical_column = Some(owner)
                      /\ RLess(best[2], call.threshold) =>
                            /\ result.match_type = "none"
                            /\ result.canonical_column = None
                            /\ result.alternatives # <<>>
                            /\ result.alternatives[1] = <<owner, best[2]>>

\* C22 witness: a label of the default schema scores below the threshold,
\* and its best candidate leads three alternatives
C22_Witness ==
    /\ InFuzzyStep
    /\ config.schema = DefaultSchema
    /\ call.result.match_type = "none"
    /\ RLess(Zero, call.result.confidence)
    /\ RLess(call.result.confidence, call.threshold)
    /\ Len(call.result.alternatives) = 3
    /\ call.result.alternatives[1][2] = call.result.confidence

(***************************************************************************)
(* ColumnMatcher.match_all, get_mapping and get_unmatched on lists of      *)
(* labels.  A dict is [keys, map], the keys in insertion order.            *)
(***************************************************************************)
\* mutant: a canonical column given to an earlier label is not given again
RECURSIVE MatchAllLoop_Claimed(_, _, _, _)
MatchAllLoop_Claimed(self, source_columns, threshold, k) ==
    IF k = 0 THEN [keys |-> <<>>, map |-> <<>>]
    ELSE LET matches == MatchAllLoop_Claimed(self, source_columns, threshold, k - 1)
             col == source_columns[k]
             found == match_column(self, col, threshold)
             match == IF \E c \in DOMAIN matches.map :
                            /\ c # col
                            /\ found.canonical_column # None
                            /\ matches.map[c].canonical_column = found.canonical_column
                      THEN [found EXCEPT !.canonical_column = None, !.match_type = "none"]
                      ELSE found
         IN  IF col \in DOMAIN matches.map
             THEN [matches EXCEPT !.map[col] = match]
             ELSE [keys |-> Append(matches.keys, col), map |-> (col :> match) @@ matches.map]

\* {col: self.match_column(col, threshold) for col in source_columns}, the
\* first k labels
RECURSIVE MatchAllLoop(_, _, _, _)
MatchAllLoop(self, source_columns, threshold, k) ==
    IF k = 0 THEN [keys |-> <<>>, map |-> <<>>]
    ELSE LET matches == MatchAllLoop(self, source_columns, threshold, k - 1)
             col == source_columns[k]
             match == match_column(self, col, threshold)
         IN  IF col \in DOMAIN matches.map
             THEN [matches EXCEPT !.map[col] = match]
             ELSE [keys |-> Append(matches.keys, col), map |-> (col :> match) @@ matches.map]

\* self.match_all(source_columns, threshold)
match_all(self, source_columns, threshold) ==
    MatchAllLoop(self, source_columns, threshold, Len(source_columns))

\* self.get_mapping(source_columns, threshold)
get_mapping(self, source_columns, threshold) ==
    LET matches == match_all(self, source_columns, threshold)
    IN  [keys |-> matches.keys,
         map |-> [col \in DOMAIN matches.map |-> matches.map[col].canonical_column]]

\* "if m.canonical_column is None"
IsUnmatched(m) == m.canonical_column = None

\* self.get_unmatched(source_columns, threshold)
get_unmatched(self, source_columns, threshold) ==
    LET matches == match_all(self, source_columns, threshold)
    IN  SelectSeq([k \in DOMAIN matches.keys |-> matches.map[matches.keys[k]]],
                  IsUnmatched)

\* the longest list of labels
MaxColumns == 3

\* the labels of test_get_mapping and test_get_unmatched, and email in
\* another spelling
ListLabels ==
    { <<"e", "m", "a", "i", "l">>,
      <<" ", "E", "m", "a", "i", "l">>,
      <<"u", "n", "k", "n", "o", "w", "n", "_", "c", "o", "l">>,
      <<"x", "y", "z", "_", "r", "a", "n", "d", "o", "m">> }

\* the lists of labels, repeated labels included
LabelLists == UNION {[1..n -> ListLabels] : n \in 0..MaxColumns}

InitMatchAll ==
    /\ df = <<>>
    /\ \E schema \in {DefaultSchema, <<>>} : config = ColumnMatcher(schema)
    /\ pc = "match_all"
    /\ candidates = {}
    /\ visited = {}
    /\ pair_scores = <<>>
    /\ clusters = None
    /\ merged = None
    /\ queried = None
    /\ \E source_columns \in LabelLists : \E threshold \in Thresholds :
          call = [op |-> "args", source_columns |-> source_columns,
                  threshold |-> threshold, result |-> None]

\* matcher.match_all(source_columns, threshold)
MatchAllCall ==
    /\ pc = "match_all"
    /\ call.op = "args"
    /\ call' = [call EXCEPT !.op = "match_all",
                            !.result = match_all(config, call.source_columns,
                                                 call.threshold)]
    /\ UNCHANGED <<df, config, pc, candidates, visited, pair_scores, clusters, merged, queried>>

\* matcher.get_mapping(source_columns, threshold)
GetMappingCall ==
    /\ pc = "match_all"
    /\ call.op = "args"
    /\ call' = [call EXCEPT !.op = "get_mapping",
                            !.result = get_mapping(config, call.source_columns,
                                                   call.threshold)]
    /\ UNCHANGED <<df, config, pc, candidates, visited, pair_scores, clusters, merged, queried>>

\* matcher.get_unmatched(source_columns, threshold)
GetUnmatchedCall ==
    /\ pc = "match_all"
    /\ call.op = "args"
    /\ call' = [call EXCEPT !.op = "get_unmatched",
                            !.result = get_unmatched(config, call.source_columns,
                                                     call.threshold)]
    /\ UNCHANGED <<df, config, pc, candidates, visited, pair_scores, clusters, merged, queried>>

NextMatchAll == MatchAllCall \/ GetMappingCall \/ GetUnmatchedCall

SpecMatchAll == InitMatchAll /\ [][NextMatchAll]_vars

(***************************************************************************)
(* Claims about match_all, get_mapping and get_unmatched, under            *)
(* SpecMatchAll.                                                           *)
(***************************************************************************)
\* the labels of the call
CallLabels == {call.source_columns[k] : k \in DOMAIN call.source_columns}

\* what match_column gives for one label alone
Alone(col) == match_column(config, col, call.threshold)

\* the labels in the order of their first occurrence
FirstOccurrences ==
    SelectSeq([k \in DOMAIN call.source_columns |-> <<k, call.source_columns[k]>>],
              LAMBDA p : \A m \in 1..(p[1] - 1) : call.source_columns[m] # p[2])

\* the list of labels back to front
Reversed ==
    [k \in DOMAIN call.source_columns |->
        call.source_columns[Len(call.source_columns) + 1 - k]]

\* C23: match_all maps each label to exactly the result match_column gives
\* for that label alone, whatever the other labels and their order;
\* get_mapping is its projection to canonical_column (or None);
\* get_unmatched returns exactly the matches whose canonical_column is None.
C23_MatchAllPerLabel ==
    /\ (pc = "match_all" /\ call.op = "match_all") =>
          /\ DOMAIN call.result.map = CallLabels
          /\ \A col \in CallLabels : call.result.map[col] = Alone(col)
          /\ call.result.keys = [k \in DOMAIN FirstOccurrences |-> FirstOccurrences[k][2]]
          /\ match_all(config, Reversed, call.threshold).map = call.result.map
    /\ (pc = "match_all" /\ call.op = "get_mapping") =>
          /\ DOMAIN call.result.map = CallLabels
          /\ \A col \in CallLabels :
                call.result.map[col] = Alone(col).canonical_column
    /\ (pc = "match_all" /\ call.op = "get_unmatched") =>
          /\ {call.result[k] : k \in DOMAIN call.result}
                = {m \in {Alone(col) : col \in CallLabels} : m.canonical_column = None}
          /\ \A x, y \in DOMAIN call.result : call.result[x] = call.result[y] => x = y
          /\ \A k \in DOMAIN call.result : call.result[k].canonical_column = None

\* C23 witness: match_all of the default schema on email in two spellings
\* and an unknown label between them: both spellings get email, the unknown
\* one gets none
C23_Witness ==
    /\ pc = "match_all"
    /\ call.op = "match_all"
    /\ config.schema = DefaultSchema
    /\ call.source_columns = << <<"e", "m", "a", "i", "l">>,
                                <<"u", "n", "k", "n", "o", "w", "n", "_", "c", "o", "l">>,
                                <<" ", "E", "m", "a", "i", "l">> >>
    /\ call.result.map[<<"e", "m", "a", "i", "l">>].match_type = "exact"
    /\ call.result.map[<<" ", "E", "m", "a", "i", "l">>].canonical_column = Some(<<"e", "m", "a", "i", "l">>)
    /\ call.result.map[<<"u", "n", "k", "n", "o", "w", "n", "_", "c", "o", "l">>].canonical_column = None

(***************************************************************************)
(* Construction of RecordMatcher, ColumnMatcher and MergeResolver from     *)
(* configurations that are valid and from ones that are not.               *)
(***************************************************************************)
\* weights a caller may pass, negative and zero included
Weights == {Rat(0 - 1, 2), Zero, Rat(1, 2), One}

\* thresholds a caller may pass, below 0 and above 1 included
DuplicateThresholds == {Rat(0 - 1, 10), Zero, DefaultThreshold, One, Rat(11, 10)}

\* the MatchConfig values passed to RecordMatcher: none (the default is
\* built), or weights for email and phone with a threshold
MatchConfigArgs ==
    {None} \cup
    { Some([match_fields |-> << <<"email", w[1]>>, <<"phone", w[2]>> >>,
            duplicate_threshold |-> t,
            blocking_fields |-> DefaultBlockingFields]) :
        w \in Weights \X Weights, t \in DuplicateThresholds }

\* the canonical_schema values passed to ColumnMatcher: none, or a dict with
\* the key columns
SchemaArgs == {None} \cup {Some([columns |-> schema]) : schema \in Schemas}

\* the arguments of the constructors
ConstructorArgs ==
    {[class |-> "RecordMatcher", config |-> c] : c \in MatchConfigArgs}
    \cup {[class |-> "ColumnMatcher", canonical_schema |-> s] : s \in SchemaArgs}
    \cup {[class |-> "MergeResolver", default_strategy |-> s, field_strategies |-> None] :
             s \in Strategies}

InitConstruct ==
    /\ df = <<>>
    /\ config = None
    /\ pc = "construct"
    /\ candidates = {}
    /\ visited = {}
    /\ pair_scores = <<>>
    /\ clusters = None
    /\ merged = None
    /\ queried = None
    /\ \E args \in ConstructorArgs :
          call = [op |-> "args", args |-> args, raised |-> FALSE]

\* RecordMatcher.__init__ has no raise statement
RecordMatcherRaises(match_config) == FALSE

\* ColumnMatcher.__init__ on a schema given as a dict has no raise statement
ColumnMatcherRaises(schema) == FALSE

\* RecordMatcher(dataframe, config): self.config = config or MatchConfig()
RecordMatcherInit ==
    /\ pc = "construct"
    /\ call.op = "args"
    /\ call.args.class = "RecordMatcher"
    /\ LET match_config ==
              IF call.args.config = None
              THEN [match_fields |-> DefaultMatchFields,
                    duplicate_threshold |-> DefaultThreshold,
                    blocking_fields |-> DefaultBlockingFields]
              ELSE call.args.config[1]
       IN  IF RecordMatcherRaises(match_config)
           THEN /\ call' = [call EXCEPT !.op = "__init__", !.raised = TRUE]
                /\ UNCHANGED <<config, clusters>>
           ELSE /\ call' = [call EXCEPT !.op = "__init__"]
                /\ config' = match_config
                /\ clusters' = None
    /\ UNCHANGED <<df, pc, candidates, visited, pair_scores, merged, queried>>

\* ColumnMatcher(canonical_schema): a schema that is None or an empty dict
\* is replaced by the default schema
ColumnMatcherInit ==
    /\ pc = "construct"
    /\ call.op = "args"
    /\ call.args.class = "ColumnMatcher"
    /\ LET schema ==
              IF call.args.canonical_schema = None THEN DefaultSchema
              ELSE call.args.canonical_schema[1].columns
       IN  IF ColumnMatcherRaises(schema)
           THEN /\ call' = [call EXCEPT !.op = "__init__", !.raised = TRUE]
                /\ UNCHANGED config
           ELSE /\ call' = [call EXCEPT !.op = "__init__"]
                /\ config' = ColumnMatcher(schema)
    /\ UNCHANGED <<df, pc, candidates, visited, pair_scores, clusters, merged, queried>>

\* MergeResolver(dataframe, default_strategy, field_strategies)
MergeResolverInit ==
    /\ pc = "construct"
    /\ call.op = "args"
    /\ call.args.class = "MergeResolver"
    /\ call' = [call EXCEPT !.op = "__init__"]
    /\ config' = [default_strategy |-> call.args.default_strategy,
                  field_strategies |->
                      IF call.args.field_strategies = None THEN <<>>
                      ELSE call.args.field_strategies]
    /\ UNCHANGED <<df, pc, candidates, visited, pair_scores, clusters, merged, queried>>

NextConstruct == RecordMatcherInit \/ ColumnMatcherInit \/ MergeResolverInit

SpecConstruct == InitConstruct /\ [][NextConstruct]_vars

(***************************************************************************)
(* Claims about construction, under SpecConstruct.                         *)
(***************************************************************************)
Constructed == pc = "construct" /\ call.op = "__init__"

\* a MatchConfig with a negative weight, with weights that are all zero, or
\* with a duplicate_threshold outside [0, 1]
InvalidMatchConfig(match_config) ==
    \/ \E k \in DOMAIN match_config.match_fields :
          RLess(match_config.match_fields[k][2], Zero)
    \/ \A k \in DOMAIN match_config.match_fields : match_config.match_fields[k][2] = Zero
    \/ RLess(match_config.duplicate_threshold, Zero)
    \/ RLess(One, match_config.duplicate_threshold)

\* the constructor was given an invalid configuration
InvalidArgs ==
    \/ /\ call.args.class = "RecordMatcher"
       /\ call.args.config # None
       /\ InvalidMatchConfig(call.args.config[1])
    \/ /\ call.args.class = "ColumnMatcher"
       /\ call.args.canonical_schema # None
       /\ call.args.canonical_schema[1].columns = <<>>

\* C24: a constructor given an invalid configuration (a negative weight,
\* all-zero weights, a duplicate threshold outside [0,1], an empty
\* vocabulary) fails with an error and leaves no matcher behind.
C24_InvalidConfigRejected ==
    (Constructed /\ InvalidArgs) => (call.raised /\ config = None)

(***************************************************************************)
(* Every operation that produces a confidence: the pipeline, single calls  *)
(* of _field_similarity, _score_pair, merge_records and match_column.      *)
(***************************************************************************)
InitConfidence == Init \/ InitSim \/ InitScore \/ InitMerge \/ InitColumn

NextConfidence == Next \/ NextSim \/ NextScore \/ NextMerge \/ NextColumn

SpecConfidence == InitConfidence /\ [][NextConfidence]_vars

\* 0 <= x <= 1
InUnit(x) == RLeq(Zero, x) /\ RLeq(x, One)

\* every value of a dict of scores lies in [0, 1]
AllInUnit(scores) == \A f \in DOMAIN scores : InUnit(scores[f])

\* the weights of the configuration are not negative
NonNegativeWeights ==
    \A k \in DOMAIN config.match_fields : RLeq(Zero, config.match_fields[k][2])

\* C25: with non-negative field weights every confidence lies in [0,1]:
\* each per-field similarity and overall pair score, each cluster's
\* confidence and per-field means, each MergeResult.confidence, each column
\* match confidence and alternative score.
C25_ConfidencesInUnit ==
    /\ (pc = "sim" /\ call.op = "_field_similarity") => InUnit(call.result)
    /\ (pc = "score" /\ call.op = "_score_pair" /\ NonNegativeWeights) =>
          /\ InUnit(call.result.score)
          /\ AllInUnit(call.result.field_scores)
    /\ (pc \in {"scoring", "found", "queried", "merged"} /\ NonNegativeWeights) =>
          /\ \A k \in DOMAIN pair_scores :
                /\ InUnit(pair_scores[k].score)
                /\ AllInUnit(pair_scores[k].field_scores)
          /\ clusters # None =>
                \A k \in DOMAIN clusters[1] :
                    /\ InUnit(clusters[1][k].confidence)
                    /\ AllInUnit(clusters[1][k].field_similarities)
          /\ merged # None =>
                \A k \in DOMAIN merged.results : InUnit(merged.results[k].confidence)
    /\ pc = "merge" =>
          \A k \in DOMAIN call.results : InUnit(call.results[k].confidence)
    /\ (pc = "column" /\ call.op = "match_column") =>
          /\ InUnit(call.result.confidence)
          /\ \A k \in DOMAIN call.result.alternatives :
                InUnit(call.result.alternatives[k][2])

\* C25 witness: the pipeline has merged a cluster whose confidence and one
\* of whose per-field means lie strictly between 0 and 1, into a record
\* whose merge confidence is below 1
C25_Witness ==
    /\ pc = "merged"
    /\ NonNegativeWeights
    /\ \E k \in DOMAIN clusters[1] :
          /\ RLess(Zero, clusters[1][k].confidence)
          /\ RLess(clusters[1][k].confidence, One)
          /\ \E f \in DOMAIN clusters[1][k].field_similarities :
                /\ RLess(Zero, clusters[1][k].field_similarities[f])
                /\ RLess(clusters[1][k].field_similarities[f], One)
    /\ \E k \in DOMAIN merged.results : RLess(merged.results[k].confidence, One)

(***************************************************************************)
(* Claims about batches without duplicates, under Spec.                    *)
(***************************************************************************)
\* blocking is over: the candidate pairs are known
BlockingDone == pc \in {"scoring", "found", "queried", "merged"}

\* no blocking field is a column of the batch
NoBlockingColumn ==
    \A k \in DOMAIN config.blocking_fields : config.blocking_fields[k] \notin Columns(df)

\* no two records share a blocking key (none at all when every blocking
\* value is empty)
NoSharedKey ==
    \A i, j \in DOMAIN df :
        i < j => \A k \in DOMAIN config.blocking_fields :
                    ~ShareBlock(i, j, config.blocking_fields[k])

\* C26: when blocking yields no candidate pair (no blocking field is a
\* column, every blocking value is empty, no two records share a key) or no
\* candidate reaches the threshold, find_duplicates returns an empty list of
\* clusters, and bulk_merge over it returns no MergeResult and every record
\* of the batch unchanged, in order.
C26_NoDuplicatesPassThrough ==
    /\ (BlockingDone /\ (NoBlockingColumn \/ NoSharedKey)) => candidates = {}
    /\ (pc \in {"found", "queried", "merged"} /\ pair_scores = <<>>) =>
          clusters = Some(<<>>)
    /\ (pc = "merged" /\ clusters = Some(<<>>)) =>
          /\ merged.results = <<>>
          /\ Len(merged.rows) = NumRows(df)
          /\ \A idx \in DOMAIN df :
                merged.rows[idx + 1] = [sources |-> <<idx>>, record |-> df[idx]]

\* C26 witness: a batch of several records whose only candidate pairs stay
\* below the threshold is merged into itself
C26_Witness ==
    /\ pc = "merged"
    /\ NumRows(df) >= 3
    /\ candidates # {}
    /\ pair_scores = <<>>
    /\ clusters = Some(<<>>)
    /\ Len(merged.rows) = NumRows(df)
    /\ \E idx \in DOMAIN df : IsNa(merged.rows[idx + 1].record.phone)

(***************************************************************************)
(* CSVReader._normalize_headers, called on a header list and again on its  *)
(* own result.                                                             *)
(***************************************************************************)
\* clean.replace(char, "_") for char in [" ", "-", "."]
ReplaceSeparators(s) ==
    [k \in DOMAIN s |-> IF s[k] \in {" ", "-", "."} THEN "_" ELSE s[k]]

\* "__" in clean
HasDoubleUnderscore(s) == \E k \in 1..(Len(s) - 1) : s[k] = "_" /\ s[k + 1] = "_"

\* clean.replace("__", "_"): the occurrences from the left, not overlapping
RECURSIVE ReplaceDouble(_)
ReplaceDouble(s) ==
    IF Len(s) < 2 THEN s
    ELSE IF s[1] = "_" /\ s[2] = "_" THEN <<"_">> \o ReplaceDouble(Tail(Tail(s)))
    ELSE <<Head(s)>> \o ReplaceDouble(Tail(s))

\* while "__" in clean: clean = clean.replace("__", "_")
RECURSIVE CollapseLoop(_)
CollapseLoop(s) == IF HasDoubleUnderscore(s) THEN CollapseLoop(ReplaceDouble(s)) ELSE s

\* clean.strip("_")
RECURSIVE StripUnderscores(_)
StripUnderscores(s) ==
    IF s # <<>> /\ Head(s) = "_" THEN StripUnderscores(Tail(s))
    ELSE IF s # <<>> /\ s[Len(s)] = "_" THEN StripUnderscores(SubSeq(s, 1, Len(s) - 1))
    ELSE s

\* the body of the loop over the headers
NormalizeHeader(header) ==
    StripUnderscores(CollapseLoop(ReplaceSeparators(Lower(Strip(header)))))

\* CSVReader._normalize_headers(headers)
_normalize_headers(headers) == [k \in DOMAIN headers |-> NormalizeHeader(headers[k])]

\* the headers of test_header_normalization
TestHeaders ==
    << <<"F", "i", "r", "s", "t", " ", "N", "a", "m", "e">>,
       <<"E", "-", "M", "a", "i", "l", " ", "A", "d", "d", "r", "e", "s", "s">>,
       <<"P", "h", "o", "n", "e", " ", "N", "u", "m", "b", "e", "r">> >>

\* the header lists: the test's, and every single header over a letter in
\* both cases, the separators, the underscore and the whitespace
\* characters blank and tab, up to MaxLen
HeaderLists ==
    {TestHeaders} \cup {<<h>> : h \in Strs({"a", "A", " ", "-", ".", "_", "\t"}, MaxLen)}

InitHeaders ==
    /\ df = <<>>
    /\ config = None
    /\ pc = "headers"
    /\ candidates = {}
    /\ visited = {}
    /\ pair_scores = <<>>
    /\ clusters = None
    /\ merged = None
    /\ queried = None
    /\ \E headers \in HeaderLists :
          call = [op |-> "args", headers |-> headers, results |-> <<>>]

\* _normalize_headers on the header list, then on the list it returned
NormalizeHeadersCall ==
    /\ pc = "headers"
    /\ Len(call.results) < 2
    /\ call' = [call EXCEPT
                   !.op = "_normalize_headers",
                   !.results = Append(call.results,
                                      _normalize_headers(IF call.results = <<>>
                                                         THEN call.headers
                                                         ELSE call.results[1]))]
    /\ UNCHANGED <<df, config, pc, candidates, visited, pair_scores, clusters, merged, queried>>

NextHeaders == NormalizeHeadersCall

SpecHeaders == InitHeaders /\ [][NextHeaders]_vars

(***************************************************************************)
(* Claims about _normalize_headers, under SpecHeaders.                     *)
(***************************************************************************)
\* a normalized name: lower case, no blank, hyphen or dot, no two
\* underscores in a row, no underscore or whitespace at either end
IsNormalizedName(s) ==
    /\ \A k \in DOMAIN s : s[k] \notin DOMAIN LowerOf /\ s[k] \notin {" ", "-", "."}
    /\ ~HasDoubleUnderscore(s)
    /\ s # <<>> => /\ s[1] # "_" /\ ~IsSpace(s[1])
                   /\ s[Len(s)] # "_" /\ ~IsSpace(s[Len(s)])

\* C27: _normalize_headers returns for every header a lower-case name with
\* blanks, hyphens and dots replaced by underscores, without two underscores
\* in a row and without an underscore or whitespace at either end; and
\* normalizing the returned list again returns it unchanged.
C27_NormalizedAndIdempotent ==
    pc = "headers" =>
        /\ Len(call.results) >= 1 =>
              /\ Len(call.results[1]) = Len(call.headers)
              /\ \A k \in DOMAIN call.results[1] : IsNormalizedName(call.results[1][k])
        /\ Len(call.results) = 2 => call.results[2] = call.results[1]

(***************************************************************************)
(* Claims about the clusters find_duplicates emits, under Spec.            *)
(***************************************************************************)
\* the groups the union-find of _cluster_pairs forms from the accepted pairs
UnionFindGroups ==
    LET parent == UnionLoop(pair_scores, Len(pair_scores))
    IN  GroupLoop(parent, Len(parent.keys))

MaxCached == 3

\* a set of pairs as a list, smallest first
RECURSIVE PairList(_)
PairList(S) ==
    IF S = {} THEN <<>>
    ELSE LET p == CHOOSE x \in S :
                      \A y \in S : x[1] < y[1] \/ (x[1] = y[1] /\ x[2] <= y[2])
         IN  <<p>> \o PairList(S \ {p})

\* the scoring loop of find_duplicates over a list of candidate pairs
RECURSIVE ScoreLoopAll(_, _, _, _)
ScoreLoopAll(d, cfg, pairs, k) ==
    IF k = 0 THEN <<>>
    ELSE LET acc == ScoreLoopAll(d, cfg, pairs, k - 1)
             scored == _score_pair(d, cfg.match_fields, pairs[k][1], pairs[k][2])
         IN  IF RLeq(cfg.duplicate_threshold, scored.score)
             THEN Append(acc, [pair |-> pairs[k], score |-> scored.score,
                               field_scores |-> scored.field_scores])
             ELSE acc

\* find_duplicates past its cache check: blocking, scoring, clustering
FindDuplicatesRun(d, cfg) ==
    LET pairs == PairList(_get_candidate_pairs(d, cfg.blocking_fields))
    IN  _cluster_pairs(ScoreLoopAll(d, cfg, pairs, Len(pairs)))

\* mutant: an empty cached list counts as no cache ("if self._clusters:")
find_duplicates_Truthy(d, cfg, cached) ==
    IF cached # None /\ cached[1] # <<>> THEN cached[1] ELSE FindDuplicatesRun(d, cfg)

\* find_duplicates on a matcher whose _clusters is cached:
\* "if self._clusters is not None: return self._clusters"
find_duplicates(d, cfg, cached) ==
    IF cached # None THEN cached[1] ELSE FindDuplicatesRun(d, cfg)

\* what the caller assigns between the calls: a duplicate_threshold nothing
\* or everything reaches, other weights, or an empty dataframe
Changes ==
    { [field |-> "duplicate_threshold", value |-> Rat(11, 10)],
      [field |-> "duplicate_threshold", value |-> Zero],
      [field |-> "match_fields", value |-> << <<"last_name", One>> >>],
      [field |-> "df", value |-> <<>>] }

InitCache ==
    /\ \E sel \in {b \in Batches : Len(b) <= MaxCached} :
          df = [idx \in 0..(Len(sel) - 1) |-> Pool[sel[idx + 1]]]
    /\ config \in Configs
    /\ pc = "start"
    /\ candidates = {}
    /\ visited = {}
    /\ pair_scores = <<>>
    /\ clusters = None
    /\ merged = None
    /\ queried = None
    /\ call = None

\* first = matcher.find_duplicates() has returned; the caller assigns to
\* matcher.config or matcher.df
ChangeBetweenCalls ==
    /\ pc = "found"
    /\ call = None
    /\ \E change \in Changes :
          /\ config' = IF change.field = "duplicate_threshold"
                       THEN [config EXCEPT !.duplicate_threshold = change.value]
                       ELSE IF change.field = "match_fields"
                       THEN [config EXCEPT !.match_fields = change.value]
                       ELSE config
          /\ df' = IF change.field = "df" THEN change.value ELSE df
          /\ call' = [op |-> "changed", change |-> change.field,
                      first |-> clusters[1], again |-> None]
    /\ UNCHANGED <<pc, candidates, visited, pair_scores, clusters, merged, queried>>

\* again = matcher.find_duplicates()
FindDuplicatesAgain ==
    /\ pc = "found"
    /\ call # None
    /\ call.op = "changed"
    /\ LET result == find_duplicates(df, config, clusters)
       IN  /\ clusters' = Some(result)
           /\ call' = [call EXCEPT !.op = "find_duplicates", !.again = Some(result)]
    /\ UNCHANGED <<df, config, pc, candidates, visited, pair_scores, merged, queried>>

NextCache ==
    \/ GetCandidatePairs
    \/ ScoreCandidate
    \/ ClusterPairs
    \/ ChangeBetweenCalls
    \/ FindDuplicatesAgain

SpecCache == InitCache /\ [][NextCache]_vars

(***************************************************************************)
(* Claims about the cache of find_duplicates, under SpecCache.             *)
(***************************************************************************)
\* the second call has returned
CalledAgain == pc = "found" /\ call # None /\ call.op = "find_duplicates"

\* C29: once find_duplicates has returned (an empty list too), a later call
\* returns the same cluster list, whatever was assigned to
\* duplicate_threshold, the weights or the dataframe in between.
C29_FindDuplicatesCached ==
    CalledAgain =>
        /\ call.again = Some(call.first)
        /\ clusters = Some(call.first)

\* C29 witness: the first call found a cluster; the threshold was then set
\* above every score, under which a new run finds nothing; the second call
\* returned the first list
C29_Witness ==
    /\ CalledAgain
    /\ call.first # <<>>
    /\ call.change = "duplicate_threshold"
    /\ RLess(One, config.duplicate_threshold)
    /\ FindDuplicatesRun(df, config) = <<>>
    /\ call.again = Some(call.first)

(***************************************************************************)
(* _cluster_pairs with the width of its float sums kept.  A Python float   *)
(* has a mantissa of 53 bits, and every "+=", sum() step and "/" rounds    *)
(* its exact result to the nearest float, a tie to the even mantissa; here *)
(* the mantissa has FloatBits bits, and a float is the rational it stands  *)
(* for.                                                                    *)
(***************************************************************************)
FloatBits == 8

\* 2 ** e
PowerOfTwo(e) == IF e >= 0 THEN Rat(2 ^ e, 1) ELSE Rat(1, 2 ^ (0 - e))

\* the binary exponent of x > 0: 2 ** e <= x < 2 ** (e + 1)
Exponent(x) ==
    CHOOSE e \in (0 - FloatBits)..FloatBits :
        RLeq(PowerOfTwo(e), x) /\ RLess(x, PowerOfTwo(e + 1))

\* the integer nearest the rational m >= 0, a tie going to the even one
RoundHalfEven(m) ==
    LET floor == m[1] \div m[2]
        rest  == m[1] % m[2]
    IN  IF 2 * rest < m[2] THEN floor
        ELSE IF 2 * rest > m[2] THEN floor + 1
        ELSE IF floor % 2 = 0 THEN floor ELSE floor + 1

\* the float nearest the rational x >= 0
Float(x) ==
    IF x[1] = 0 THEN Zero
    ELSE LET ulp == PowerOfTwo(Exponent(x) - FloatBits + 1)
         IN  RMul(Rat(RoundHalfEven(RDiv(x, ulp)), 1), ulp)

\* a + b and a / b on floats
FloatAdd(a, b) == Float(RAdd(a, b))

FloatDiv(a, b) == Float(RDiv(a, b))

\* the passes (i, j) of "for i in range(len(indices)): for j in
\* range(i + 1, len(indices))" in the order they run, as positions from 1
LoopSteps(indices) ==
    PairList({q \in (DOMAIN indices) \X (DOMAIN indices) : q[1] < q[2]})

\* total_score and total_pairs after the first k of the passes steps, and
\* the field_scores of the pairs that were found in pair_scores, in the
\* order of the passes
RECURSIVE AggregateLoop(_, _, _, _)
AggregateLoop(scores, indices, steps, k) ==
    IF k = 0 THEN [total_score |-> Zero, total_pairs |-> 0, found |-> <<>>]
    ELSE LET acc   == AggregateLoop(scores, indices, steps, k - 1)
             pair  == <<Min(indices[steps[k][1]], indices[steps[k][2]]),
                        Max(indices[steps[k][1]], indices[steps[k][2]])>>
         IN  IF pair \notin ScoredPairs(scores) THEN acc
             ELSE LET entry == ScoreEntry(scores, pair)
                  IN  [total_pairs |-> acc.total_pairs + 1,
                       total_score |-> FloatAdd(acc.total_score, Float(entry.score)),
                       found |-> Append(acc.found, entry.field_scores)]

\* aggregated_field_scores[field]: the floats appended for the field
AggregatedFieldScores(aggregate, field) ==
    LET having == SelectSeq(aggregate.found, LAMBDA fs : field \in DOMAIN fs)
    IN  [k \in DOMAIN having |-> Float(having[k][field])]

\* sum(scores): the floats added one by one from 0, the first k of them
RECURSIVE FloatSum(_, _)
FloatSum(values, k) ==
    IF k = 0 THEN Zero ELSE FloatAdd(FloatSum(values, k - 1), values[k])

\* mutant: the cluster carries total_score, not the average
FloatConfidence_Total(aggregate) == aggregate.total_score

\* avg_confidence = total_score / total_pairs if total_pairs > 0 else 0.0
FloatConfidence(aggregate) ==
    IF aggregate.total_pairs > 0
    THEN FloatDiv(aggregate.total_score, Rat(aggregate.total_pairs, 1))
    ELSE Zero

\* avg_field_scores = {field: sum(scores) / len(scores) ...}
FloatFieldScores(aggregate) ==
    [field \in UNION {DOMAIN aggregate.found[k] : k \in DOMAIN aggregate.found} |->
        LET values == AggregatedFieldScores(aggregate, field)
        IN  FloatDiv(FloatSum(values, Len(values)), Rat(Len(values), 1))]

\* "Build cluster objects", the first k items of clusters_dict
RECURSIVE BuildLoopFloat(_, _, _)
BuildLoopFloat(scores, grouped, k) ==
    IF k = 0 THEN <<>>
    ELSE LET acc == BuildLoopFloat(scores, grouped, k - 1)
             indices == grouped.lists[grouped.roots[k]]
             steps == LoopSteps(indices)
             aggregate == AggregateLoop(scores, indices, steps, Len(steps))
         IN  IF Len(indices) < 2 THEN acc
             ELSE Append(acc, [cluster_id |-> k - 1,
                               record_indices |-> RecordIndices(indices),
                               confidence |-> FloatConfidence(aggregate),
                               field_similarities |-> FloatFieldScores(aggregate)])

_cluster_pairs_float(scores) ==
    IF scores = <<>> THEN <<>>
    ELSE LET parent  == UnionLoop(scores, Len(scores))
             grouped == GroupLoop(parent, Len(parent.keys))
         IN  SortByConfidence(BuildLoopFloat(scores, grouped, Len(grouped.roots)))

\* rows that share the blocking key of last_name and are near duplicates of
\* each other to different degrees
NearDuplicates ==
    << Rec(<<>>, <<"1", "2">>, <<"a", "b", "c">>),
       Rec(<<>>, <<"1", "2", "3">>, <<"a", "b", "c">>),
       Rec(<<>>, <<"1", "2">>, <<"a", "b", "c", "d">>),
       Rec(<<>>, <<"1", "2", "3", "4">>, <<"a", "b", "c", "e">>) >>

\* up to MaxCached different rows of them, in any order
InitFloat ==
    /\ \E sel \in UNION {[1..n -> DOMAIN NearDuplicates] : n \in 0..MaxCached} :
          /\ \A a, b \in DOMAIN sel : a # b => sel[a] # sel[b]
          /\ df = [idx \in 0..(Len(sel) - 1) |-> NearDuplicates[sel[idx + 1]]]
    /\ config \in Configs
    /\ pc = "start"
    /\ candidates = {}
    /\ visited = {}
    /\ pair_scores = <<>>
    /\ clusters = None
    /\ merged = None
    /\ queried = None
    /\ call = None

\* the end of find_duplicates, the sums of _cluster_pairs in floats
ClusterPairsFloat ==
    /\ pc = "scoring"
    /\ visited = candidates
    /\ clusters' = Some(_cluster_pairs_float(pair_scores))
    /\ pc' = "found"
    /\ UNCHANGED <<df, config, candidates, visited, pair_scores, merged, queried, call>>

NextFloat ==
    \/ GetCandidatePairs
    \/ ScoreCandidate
    \/ ClusterPairsFloat

SpecFloat == InitFloat /\ [][NextFloat]_vars

(***************************************************************************)
(* Claims about the order of the scored pairs, under SpecFloat.            *)
(***************************************************************************)
\* the pair_scores of the state, inserted in ascending order of the pairs
SortedScores ==
    LET pairs == PairList(ScoredPairs(pair_scores))
    IN  [k \in DOMAIN pairs |-> ScoreEntry(pair_scores, pairs[k])]

\* the partition a cluster list stands for
PartitionOf(cs) == {cs[k].record_indices : k \in DOMAIN cs}

\* the members and the confidence of every cluster, without the ids and the
\* order of the list
OutcomeOf(cs) ==
    {[record_indices |-> cs[k].record_indices, confidence |-> cs[k].confidence] :
        k \in DOMAIN cs}

\* |a - b| <= c
RWithin(a, b, c) == RLeq(a, RAdd(b, c)) /\ RLeq(b, RAdd(a, c))

\* the rounding two float means of n scores in [0, 1] can differ by: each of
\* the n - 1 sums and the division is off by at most half a unit in the
\* last place of a value below n
RoundingSlack(n) == RMul(Rat(n, 1), PowerOfTwo(0 - FloatBits))

\* C30 as stated: whatever the order in which the accepted pairs were
\* collected, _cluster_pairs gives the partition and the confidences it
\* gives for the pairs in ascending order.
C30_OrderIndependent ==
    pc = "found" =>
        OutcomeOf(clusters[1]) = OutcomeOf(_cluster_pairs_float(SortedScores))

\* C30, amended: whatever the order in which the accepted pairs were
\* collected, _cluster_pairs gives the partition it gives for the pairs in
\* ascending order, and for each cluster a confidence that differs from the
\* one of that order by no more than the rounding of the float sums.
C30_OrderIndependentUpToRounding ==
    pc = "found" =>
        LET sorted == _cluster_pairs_float(SortedScores)
        IN  /\ PartitionOf(clusters[1]) = PartitionOf(sorted)
            /\ Len(clusters[1]) = Len(sorted)
            /\ \A k \in DOMAIN clusters[1] : \A m \in DOMAIN sorted :
                  clusters[1][k].record_indices = sorted[m].record_indices =>
                      RWithin(clusters[1][k].confidence, sorted[m].confidence,
                              RoundingSlack(Cardinality(
                                  MemberPairs(pair_scores, sorted[m].record_indices))))

\* C30 witness: three accepted pairs collected out of ascending order put
\* three records into one cluster, whose confidence is not the one the
\* ascending order gives
C30_Witness ==
    /\ pc = "found"
    /\ pair_scores # SortedScores
    /\ Len(pair_scores) = 3
    /\ Len(clusters[1]) = 1
    /\ Len(clusters[1][1].record_indices) = 3
    /\ clusters[1][1].confidence # _cluster_pairs_float(SortedScores)[1].confidence

=============================================================================
